---- MODULE Spec2Model ----
(***************************************************************************)
(* A model of GCSFS (src/fs_gcsfs/_gcsfs.py): a PyFilesystem interface on  *)
(* top of a flat Google Cloud Storage bucket.  Paths and keys are strings, *)
(* modelled character by character as sequences of one-character strings,  *)
(* so that the path translation (normpath, relpath, dirname, forcedir,     *)
(* lstrip, rstrip, prefix listing) is computed as the code computes it.    *)
(* The bucket is a function from the keys that hold an object to the       *)
(* object's content (a sequence of bytes).                                 *)
(***************************************************************************)
EXTENDS Integers, Sequences, FiniteSets, TLC

(***************************************************************************)
(* Strings                                                                 *)
(***************************************************************************)
DELIMITER == "/"

\* str.lstrip(c)
RECURSIVE lstrip(_, _)
lstrip(s, c) ==
    IF s # <<>> /\ Head(s) = c THEN lstrip(Tail(s), c) ELSE s

\* str.rstrip(c)
RECURSIVE rstrip(_, _)
rstrip(s, c) ==
    IF s # <<>> /\ s[Len(s)] = c THEN rstrip(SubSeq(s, 1, Len(s) - 1), c) ELSE s

\* str.startswith(pre)
startswith(s, pre) ==
    Len(pre) <= Len(s) /\ SubSeq(s, 1, Len(pre)) = pre

\* str.endswith(c) for a one-character c
endswith(s, c) ==
    s # <<>> /\ s[Len(s)] = c

\* c in s, for a one-character c
contains(s, c) ==
    \E i \in 1..Len(s) : s[i] = c

\* the index of the last c in s (0 when there is none)
rindex(s, c) ==
    IF contains(s, c) THEN CHOOSE i \in 1..Len(s) : s[i] = c /\ \A j \in (i+1)..Len(s) : s[j] # c
    ELSE 0

\* the index of the first c in s (0 when there is none)
index(s, c) ==
    IF contains(s, c) THEN CHOOSE i \in 1..Len(s) : s[i] = c /\ \A j \in 1..(i-1) : s[j] # c
    ELSE 0

\* str.split(c): the components between the separators, empty ones kept
RECURSIVE split(_, _)
split(s, c) ==
    IF ~contains(s, c) THEN <<s>>
    ELSE <<SubSeq(s, 1, index(s, c) - 1)>> \o split(SubSeq(s, index(s, c) + 1, Len(s)), c)

\* c.join(parts)
RECURSIVE strjoin(_, _)
strjoin(parts, c) ==
    IF parts = <<>> THEN <<>>
    ELSE IF Len(parts) = 1 THEN parts[1]
    ELSE parts[1] \o <<c>> \o strjoin(Tail(parts), c)

(***************************************************************************)
(* Bounds and inputs                                                       *)
(***************************************************************************)
\* the longest file content written
MaxLen == 1
\* the number of file handles that can be open at the same time
MaxHandles == 1
\* the bytes written
Bytes == {1}

PathA   == <<"/", "a">>
PathAB  == <<"/", "a", "/", "b">>
PathABA == <<"/", "a", "/", "b", "/", "a">>
Root    == <<"/">>

\* the paths the calls are made with
Paths == {Root, PathA, PathAB, PathABA}
\* the paths files are opened at, copied and moved between
FilePaths == {PathA, PathAB}
\* the modes files are opened with
Modes == {<<"r">>, <<"w">>, <<"a">>, <<"x">>}
\* the root_path values the filesystem is constructed with
RootPaths == {<<>>, <<"r">>}
\* a root_path written with a leading slash: the same _prefix as "r"
SlashRootPaths == {<<"/", "r">>}

(***************************************************************************)
(* fs.path, as GCSFS calls it                                              *)
(***************************************************************************)
\* fs.path._requires_normalization: the regex (^|/)\.\.?($|/)|//
requires_normalization(path) ==
    \/ \E i \in 1..Len(split(path, "/")) :
          split(path, "/")[i] \in {<<".">>, <<".", ".">>}
    \/ \E i \in 1..(Len(path) - 1) : path[i] = "/" /\ path[i+1] = "/"

\* the component loop of fs.path.normpath: components is the stack, err is
\* set when '..' pops the empty stack (IndexError -> IllegalBackReference)
RECURSIVE norm_components(_, _)
norm_components(todo, components) ==
    IF todo = <<>> THEN [err |-> FALSE, components |-> components]
    ELSE IF Head(todo) = <<".", ".">>
         THEN IF components = <<>> THEN [err |-> TRUE, components |-> <<>>]
              ELSE norm_components(Tail(todo), SubSeq(components, 1, Len(components) - 1))
    ELSE IF Head(todo) \in {<<>>, <<".">>}
         THEN norm_components(Tail(todo), components)
    ELSE norm_components(Tail(todo), Append(components, Head(todo)))

\* normpath, were '..' on the empty stack ignored
IgnoredBackReference(path) == FALSE

\* fs.path.normpath raises IllegalBackReference
IllegalBackReference(path) ==
    /\ path \notin {<<>>, <<"/">>}
    /\ requires_normalization(path)
    /\ norm_components(split(path, "/"), <<>>).err

\* fs.path.normpath (where it does not raise)
normpath(path) ==
    IF path \in {<<>>, <<"/">>} THEN path
    ELSE IF ~requires_normalization(path) THEN rstrip(path, "/")
    ELSE (IF Head(path) = "/" THEN <<"/">> ELSE <<>>)
         \o strjoin(norm_components(split(path, "/"), <<>>).components, "/")

\* fs.path.relpath
relpath(path) == lstrip(path, "/")

\* fs.path.abspath
abspath(path) == IF startswith(path, <<"/">>) THEN path ELSE <<"/">> \o path

\* fs.path.dirname: split(path)[0]
split_dirname(path) ==
    IF ~contains(path, "/") THEN <<>>
    ELSE IF rindex(path, "/") = 1 THEN <<"/">>
    ELSE SubSeq(path, 1, rindex(path, "/") - 1)

\* the values of dirname, validatepath and recursepath on the paths of the
\* calls, computed once
dirname_of == [path \in Paths |-> split_dirname(path)]

dirname(path) == IF path \in Paths THEN dirname_of[path] ELSE split_dirname(path)

\* fs.path.forcedir
forcedir(path) == IF endswith(path, "/") THEN path ELSE path \o <<"/">>

\* FS.validatepath: the absolute normalized path
validatepath_of == [path \in Paths |-> abspath(normpath(path))]

validatepath(path) == IF path \in Paths THEN validatepath_of[path] ELSE abspath(normpath(path))


\* fs.path.recursepath: the path and its ancestors, root first
RECURSIVE ancestors(_)
ancestors(path) ==
    IF path \in {<<>>, <<"/">>} THEN << <<"/">> >>
    ELSE ancestors(dirname(validatepath(path))) \o <<validatepath(path)>>

recursepath_of == [path \in Paths |-> ancestors(path)]

recursepath(path) == IF path \in Paths THEN recursepath_of[path] ELSE ancestors(path)

\* a sequence reversed (paths[::-1])
RECURSIVE reversed(_)
reversed(s) ==
    IF s = <<>> THEN <<>> ELSE Append(reversed(Tail(s)), Head(s))

(***************************************************************************)
(* State                                                                   *)
(***************************************************************************)
VARIABLES
    root_path,   \* GCSFS.root_path, as given to the constructor
    strict,      \* GCSFS.strict
    bucket,      \* the bucket: key -> content, for the keys that hold an object
    handles,     \* the GCSFile handles: id -> [st, path, key, mode, buf, pos]
    last         \* the call that has just returned, and how it ended

vars == <<root_path, strict, bucket, handles, last>>

\* the content of a directory marker: blob.upload_from_string(b"")
EmptyContent == <<>>

\* bucket.blob(key).upload_from_...(content): one full put
put_blob(b, key, content) ==
    [k \in DOMAIN b \cup {key} |-> IF k = key THEN content ELSE b[k]]

\* bucket.delete_blob(key), where the object exists
delete_blob(b, key) ==
    [k \in DOMAIN b \ {key} |-> b[k]]

\* GCSFS._get_blob / bucket.get_blob: is there an object at key
get_blob(b, key) == key \in DOMAIN b

(***************************************************************************)
(* Path translation                                                        *)
(***************************************************************************)
\* GCSFS._prefix
prefix_of(rp) == rstrip(relpath(normpath(rp)), "/")

\* _path_to_key, were the path not normalized
path_to_key_raw(pre, path) ==
    rstrip(lstrip(strjoin(<<pre, relpath(path)>>, "/"), "/"), "/")

\* _path_to_key, were the joined key not stripped of delimiters
path_to_key_unstripped(pre, path) == strjoin(<<pre, relpath(normpath(path))>>, "/")

\* GCSFS._path_to_key for a filesystem whose _prefix is pre
path_to_key_under(pre, path) ==
    rstrip(lstrip(strjoin(<<pre, relpath(normpath(path))>>, "/"), "/"), "/")

\* the keys of the paths of the calls, computed once for each root_path
path_to_key_of ==
    [rp \in RootPaths \cup SlashRootPaths |->
        [path \in Paths |-> path_to_key_under(prefix_of(rp), path)]]

path_to_key(path) ==
    IF root_path \in DOMAIN path_to_key_of /\ path \in Paths THEN path_to_key_of[root_path][path]
    ELSE path_to_key_under(prefix_of(root_path), path)

\* GCSFS._path_to_dir_key
path_to_dir_key(path) == path_to_key(path) \o <<DELIMITER>>

(***************************************************************************)
(* Stat                                                                    *)
(***************************************************************************)
\* getinfo, were the marker looked at before the object at the key
getinfo_marker_first(b, path, check_parent_dir) ==
    LET vpath == validatepath(path) IN
    IF /\ check_parent_dir
       /\ dirname(vpath) # <<"/">>
       /\ ~get_blob(b, path_to_dir_key(dirname(vpath)))
    THEN "ResourceNotFound"
    ELSE IF vpath = <<"/">> THEN "dir"
    ELSE IF get_blob(b, path_to_dir_key(vpath)) THEN "dir"
    ELSE IF get_blob(b, path_to_key(vpath)) THEN "file"
    ELSE "ResourceNotFound"

\* GCSFS.getinfo: "file", "dir" or the error raised
getinfo(b, path, check_parent_dir) ==
    LET vpath == validatepath(path) IN
    IF /\ check_parent_dir
       /\ dirname(vpath) # <<"/">>
       /\ ~get_blob(b, path_to_dir_key(dirname(vpath)))
    THEN "ResourceNotFound"
    ELSE IF vpath = <<"/">> THEN "dir"
    ELSE IF get_blob(b, path_to_key(vpath)) THEN "file"
    ELSE IF get_blob(b, path_to_dir_key(vpath)) THEN "dir"
    ELSE "ResourceNotFound"

\* GCSFS.isdir
isdir(b, path) == getinfo(b, validatepath(path), FALSE) = "dir"

\* GCSFS.exists
exists(b, path) ==
    \/ validatepath(path) = <<"/">>
    \/ get_blob(b, path_to_key(path))
    \/ isdir(b, path)

\* GCSFS.opendir: the error raised, or "ok"
opendir(b, path) ==
    IF strict /\ getinfo(b, path, TRUE) # "dir"
    THEN (IF getinfo(b, path, TRUE) = "file" THEN "DirectoryExpected" ELSE "ResourceNotFound")
    ELSE "ok"

(***************************************************************************)
(* Listing                                                                 *)
(***************************************************************************)
\* what follows the prefix in a key that starts with it
after_prefix(k, prefix) == SubSeq(k, Len(prefix) + 1, Len(k))

\* bucket.list_blobs(prefix, delimiter="/"): the objects directly under prefix
list_blobs_items(b, prefix) ==
    {k \in DOMAIN b : startswith(k, prefix) /\ ~contains(after_prefix(k, prefix), DELIMITER)}

\* bucket.list_blobs(prefix, delimiter="/").pages[*].prefixes: the common prefixes
list_blobs_prefixes(b, prefix) ==
    {SubSeq(k, 1, Len(prefix) + index(after_prefix(k, prefix), DELIMITER)) :
        k \in {x \in DOMAIN b : startswith(x, prefix) /\ contains(after_prefix(x, prefix), DELIMITER)}}

\* bucket.list_blobs(prefix): every object whose key starts with prefix
list_blobs_all(b, prefix) == {k \in DOMAIN b : startswith(k, prefix)}

\* _scandir, were the root listed like any other directory
scandir_prefix_literal(path) == path_to_dir_key(validatepath(path))

\* the prefix GCSFS._scandir lists with
scandir_prefix(path) ==
    IF path_to_dir_key(validatepath(path)) = <<"/">> THEN <<>>
    ELSE path_to_dir_key(validatepath(path))

\* GCSFS._scandir: the error raised before anything is listed, or "ok"
scandir_err(b, path) ==
    IF getinfo(b, validatepath(path), TRUE) = "ResourceNotFound" THEN "ResourceNotFound"
    ELSE IF getinfo(b, validatepath(path), TRUE) # "dir" THEN "DirectoryExpected"
    ELSE "ok"

\* GCSFS._scandir: the names yielded for the common prefixes (directory entries)
scandir_dirs(b, path) ==
    {rstrip(after_prefix(dp, scandir_prefix(path)), DELIMITER) :
        dp \in list_blobs_prefixes(b, scandir_prefix(path))}

\* _scandir, were the marker of the directory listed not skipped
scandir_files_all(b, path) ==
    {after_prefix(k, scandir_prefix(path)) : k \in list_blobs_items(b, scandir_prefix(path))}

\* GCSFS._scandir: the names yielded for the objects (file entries)
scandir_files(b, path) ==
    {after_prefix(k, scandir_prefix(path)) :
        k \in list_blobs_items(b, scandir_prefix(path)) \ {path_to_dir_key(validatepath(path))}}

\* GCSFS.listdir: the names yielded for the common prefixes, and the names
\* yielded for the objects
listdir(b, path) ==
    [dirs |-> scandir_dirs(b, path), files |-> scandir_files(b, path)]

\* isempty, were only the file entries looked at
isempty_files(b, path) ==
    scandir_files(b, path) = {}

\* FS.isempty: scandir yields nothing
isempty(b, path) ==
    scandir_dirs(b, path) = {} /\ scandir_files(b, path) = {}


(***************************************************************************)
(* Directory operations, as functions of the bucket: each gives the bucket *)
(* the call leaves (b) and the error it raises (err, "ok" when none)       *)
(***************************************************************************)
\* makedir, were the parent not required to be a directory
makedir_orphan(b, path, recreate) ==
    IF getinfo(b, path, TRUE) # "ResourceNotFound" /\ isdir(b, dirname(validatepath(path)))
    THEN [b |-> b, err |-> IF recreate THEN opendir(b, validatepath(path)) ELSE "DirectoryExists"]
    ELSE [b |-> put_blob(b, path_to_dir_key(validatepath(path)), EmptyContent), err |-> "ok"]

\* makedir, were recreate not honoured
makedir_once(b, path, recreate) ==
    IF ~isdir(b, dirname(validatepath(path)))
    THEN [b |-> b, err |-> "ResourceNotFound"]
    ELSE IF getinfo(b, path, TRUE) # "ResourceNotFound"
    THEN [b |-> b, err |-> "DirectoryExists"]
    ELSE [b |-> put_blob(b, path_to_dir_key(validatepath(path)), EmptyContent), err |-> "ok"]

\* GCSFS.makedir
makedir(b, path, recreate) ==
    IF ~isdir(b, dirname(validatepath(path)))
    THEN [b |-> b, err |-> "ResourceNotFound"]
    ELSE IF getinfo(b, path, TRUE) # "ResourceNotFound"
    THEN [b |-> b, err |-> IF recreate THEN opendir(b, validatepath(path)) ELSE "DirectoryExists"]
    ELSE [b |-> put_blob(b, path_to_dir_key(validatepath(path)), EmptyContent), err |-> "ok"]

\* the loop of fs.tools.get_intermediate_dirs over the reversed recursepath
RECURSIVE intermediate_scan(_, _, _)
intermediate_scan(b, todo, intermediates) ==
    IF todo = <<>> THEN [err |-> "ok", dirs |-> intermediates]
    ELSE LET resource == getinfo(b, Head(todo), TRUE) IN
         IF resource = "ResourceNotFound"
         THEN intermediate_scan(b, Tail(todo), Append(intermediates, abspath(Head(todo))))
         ELSE IF resource = "dir" THEN [err |-> "ok", dirs |-> intermediates]
         ELSE [err |-> "DirectoryExpected", dirs |-> <<>>]

\* fs.tools.get_intermediate_dirs: intermediates[::-1][:-1]
get_intermediate_dirs(b, dir_path) ==
    LET r  == intermediate_scan(b, reversed(recursepath(abspath(dir_path))), <<>>)
        rv == reversed(r.dirs)
    IN  [err |-> r.err,
         dirs |-> IF rv = <<>> THEN <<>> ELSE SubSeq(rv, 1, Len(rv) - 1)]

\* GCSFS.makedirs, the loop: makedir(dir_path, recreate=True) for every one
RECURSIVE makedir_each(_, _)
\* the rest of the loop after one makedir: its error ends the loop
makedir_rest(made, dir_paths) ==
    IF made.err # "ok" THEN made ELSE makedir_each(made.b, dir_paths)

makedir_each(b, dir_paths) ==
    IF dir_paths = <<>> THEN [b |-> b, err |-> "ok"]
    ELSE makedir_rest(makedir(b, Head(dir_paths), TRUE), Tail(dir_paths))

\* makedirs after the loop, were DirectoryExists raised whatever recreate is
makedirs_final_raise(b, path, recreate) ==
    LET r == makedir(b, path, FALSE) IN
    IF r.err = "ok" THEN [b |-> r.b, err |-> opendir(r.b, path)] ELSE r

\* GCSFS.makedirs, after the loop: makedir(path), DirectoryExists swallowed
\* when recreate, then opendir(path)
makedirs_final(b, path, recreate) ==
    LET r == makedir(b, path, FALSE) IN
    IF r.err = "ok" \/ (r.err = "DirectoryExists" /\ recreate)
    THEN [b |-> r.b, err |-> opendir(r.b, path)]
    ELSE r

\* GCSFS.makedirs
\* GCSFS.makedirs, after the loop has left made
makedirs_after(made, path, recreate) ==
    IF made.err # "ok" THEN made ELSE makedirs_final(made.b, path, recreate)

\* GCSFS.makedirs, once get_intermediate_dirs has returned scan
makedirs_from(b, path, recreate, scan) ==
    IF scan.err # "ok" THEN [b |-> b, err |-> scan.err]
    ELSE makedirs_after(makedir_each(b, scan.dirs), path, recreate)

makedirs(b, path, recreate) ==
    makedirs_from(b, path, recreate, get_intermediate_dirs(b, path))

\* removedir, were the root not refused
removedir_any(b, path) ==
    IF getinfo(b, validatepath(path), TRUE) = "ResourceNotFound"
    THEN [b |-> b, err |-> "ResourceNotFound"]
    ELSE IF getinfo(b, validatepath(path), TRUE) # "dir"
    THEN [b |-> b, err |-> "DirectoryExpected"]
    ELSE IF scandir_err(b, path) # "ok" THEN [b |-> b, err |-> scandir_err(b, path)]
    ELSE IF ~isempty(b, path) THEN [b |-> b, err |-> "DirectoryNotEmpty"]
    ELSE IF ~get_blob(b, path_to_dir_key(validatepath(path)))
    THEN [b |-> b, err |-> "ResourceNotFound"]
    ELSE [b |-> delete_blob(b, path_to_dir_key(validatepath(path))), err |-> "ok"]

\* removedir, were the marker left in the bucket
removedir_keep(b, path) ==
    IF validatepath(path) = <<"/">> THEN [b |-> b, err |-> "RemoveRootError"]
    ELSE IF getinfo(b, validatepath(path), TRUE) = "ResourceNotFound"
    THEN [b |-> b, err |-> "ResourceNotFound"]
    ELSE IF getinfo(b, validatepath(path), TRUE) # "dir"
    THEN [b |-> b, err |-> "DirectoryExpected"]
    ELSE IF scandir_err(b, path) # "ok" THEN [b |-> b, err |-> scandir_err(b, path)]
    ELSE IF ~isempty(b, path) THEN [b |-> b, err |-> "DirectoryNotEmpty"]
    ELSE IF ~get_blob(b, path_to_dir_key(validatepath(path)))
    THEN [b |-> b, err |-> "ResourceNotFound"]
    ELSE [b |-> b, err |-> "ok"]

\* GCSFS.removedir
removedir(b, path) ==
    IF validatepath(path) = <<"/">> THEN [b |-> b, err |-> "RemoveRootError"]
    ELSE IF getinfo(b, validatepath(path), TRUE) = "ResourceNotFound"
    THEN [b |-> b, err |-> "ResourceNotFound"]
    ELSE IF getinfo(b, validatepath(path), TRUE) # "dir"
    THEN [b |-> b, err |-> "DirectoryExpected"]
    ELSE IF scandir_err(b, path) # "ok" THEN [b |-> b, err |-> scandir_err(b, path)]
    ELSE IF ~isempty(b, path) THEN [b |-> b, err |-> "DirectoryNotEmpty"]
    ELSE IF ~get_blob(b, path_to_dir_key(validatepath(path)))
    THEN [b |-> b, err |-> "ResourceNotFound"]
    ELSE [b |-> delete_blob(b, path_to_dir_key(validatepath(path))), err |-> "ok"]

(***************************************************************************)
(* File operations                                                         *)
(***************************************************************************)
\* remove, were the store's NotFound not raised as ResourceNotFound
remove_quiet(b, path) ==
    IF strict /\ getinfo(b, path, TRUE) = "ResourceNotFound"
    THEN [b |-> b, err |-> "ResourceNotFound"]
    ELSE IF strict /\ getinfo(b, path, TRUE) = "dir"
    THEN [b |-> b, err |-> "FileExpected"]
    ELSE [b |-> delete_blob(b, path_to_key(validatepath(path))), err |-> "ok"]

\* GCSFS.remove
remove(b, path) ==
    IF strict /\ getinfo(b, path, TRUE) = "ResourceNotFound"
    THEN [b |-> b, err |-> "ResourceNotFound"]
    ELSE IF strict /\ getinfo(b, path, TRUE) = "dir"
    THEN [b |-> b, err |-> "FileExpected"]
    ELSE IF ~get_blob(b, path_to_key(validatepath(path)))
    THEN [b |-> b, err |-> "ResourceNotFound"]
    ELSE [b |-> delete_blob(b, path_to_key(validatepath(path))), err |-> "ok"]

\* copy, were the source looked at before the destination
copy_src_first(b, src_path, dst_path, overwrite) ==
    IF ~get_blob(b, path_to_key(validatepath(src_path)))
    THEN [b |-> b, err |-> IF exists(b, src_path) THEN "FileExpected" ELSE "ResourceNotFound"]
    ELSE IF ~overwrite /\ exists(b, dst_path)
    THEN [b |-> b, err |-> "DestinationExists"]
    ELSE IF strict /\ ~isdir(b, dirname(validatepath(dst_path)))
    THEN [b |-> b, err |-> "ResourceNotFound"]
    ELSE [b |-> put_blob(b, path_to_key(validatepath(dst_path)),
                         b[path_to_key(validatepath(src_path))]),
          err |-> "ok"]

\* GCSFS.copy
copy(b, src_path, dst_path, overwrite) ==
    IF ~overwrite /\ exists(b, dst_path)
    THEN [b |-> b, err |-> "DestinationExists"]
    ELSE IF strict /\ ~isdir(b, dirname(validatepath(dst_path)))
    THEN [b |-> b, err |-> "ResourceNotFound"]
    ELSE IF ~get_blob(b, path_to_key(validatepath(src_path)))
    THEN [b |-> b, err |-> IF exists(b, src_path) THEN "FileExpected" ELSE "ResourceNotFound"]
    ELSE [b |-> put_blob(b, path_to_key(validatepath(dst_path)),
                         b[path_to_key(validatepath(src_path))]),
          err |-> "ok"]

\* GCSFS.move: copy, then remove
move(b, src_path, dst_path, overwrite) ==
    IF copy(b, src_path, dst_path, overwrite).err # "ok"
    THEN copy(b, src_path, dst_path, overwrite)
    ELSE remove(copy(b, src_path, dst_path, overwrite).b, src_path)


(***************************************************************************)
(* Opening a file: fs.mode.Mode and GCSFS.openbin                          *)
(***************************************************************************)
mode_create(mode)    == contains(mode, "w") \/ contains(mode, "a") \/ contains(mode, "x")
mode_reading(mode)   == contains(mode, "r") \/ contains(mode, "+")
mode_writing(mode)   == contains(mode, "w") \/ contains(mode, "a") \/ contains(mode, "+")
                        \/ contains(mode, "x")
mode_appending(mode) == contains(mode, "a")
mode_exclusive(mode) == contains(mode, "x")

\* openbin, were the exclusive flag not looked at
openbin_err_inclusive(b, path, mode) ==
    LET vpath == validatepath(path) IN
    IF mode_create(mode)
    THEN IF dirname(vpath) # <<"/">> /\ ~get_blob(b, path_to_dir_key(dirname(vpath)))
         THEN "ResourceNotFound"
         ELSE IF getinfo(b, path, TRUE) = "dir" THEN "FileExpected"
         ELSE "ok"
    ELSE IF strict /\ getinfo(b, path, TRUE) = "ResourceNotFound" THEN "ResourceNotFound"
         ELSE IF strict /\ getinfo(b, path, TRUE) = "dir" THEN "FileExpected"
         ELSE IF ~get_blob(b, path_to_key(vpath)) THEN "ResourceNotFound"
         ELSE "ok"

\* openbin, were the parent of a file to create not looked at
openbin_err_orphan(b, path, mode) ==
    LET vpath == validatepath(path) IN
    IF mode_create(mode)
    THEN IF getinfo(b, path, TRUE) # "ResourceNotFound" /\ mode_exclusive(mode)
         THEN "FileExists"
         ELSE IF getinfo(b, path, TRUE) = "dir" THEN "FileExpected"
         ELSE "ok"
    ELSE IF strict /\ getinfo(b, path, TRUE) = "ResourceNotFound" THEN "ResourceNotFound"
         ELSE IF strict /\ getinfo(b, path, TRUE) = "dir" THEN "FileExpected"
         ELSE IF ~get_blob(b, path_to_key(vpath)) THEN "ResourceNotFound"
         ELSE "ok"

\* GCSFS.openbin, the error raised ("ok" when a handle is returned)
openbin_err(b, path, mode) ==
    LET vpath == validatepath(path) IN
    IF mode_create(mode)
    THEN IF dirname(vpath) # <<"/">> /\ ~get_blob(b, path_to_dir_key(dirname(vpath)))
         THEN "ResourceNotFound"
         ELSE IF getinfo(b, path, TRUE) # "ResourceNotFound" /\ mode_exclusive(mode)
         THEN "FileExists"
         ELSE IF getinfo(b, path, TRUE) = "dir" THEN "FileExpected"
         ELSE "ok"
    ELSE IF strict /\ getinfo(b, path, TRUE) = "ResourceNotFound" THEN "ResourceNotFound"
         ELSE IF strict /\ getinfo(b, path, TRUE) = "dir" THEN "FileExpected"
         ELSE IF ~get_blob(b, path_to_key(vpath)) THEN "ResourceNotFound"
         ELSE "ok"

\* GCSFS.openbin, the temporary file of the handle returned: what was
\* downloaded into it (nothing, unless appending or reading)
openbin_buf(b, path, mode) ==
    IF mode_create(mode) /\ ~(mode_appending(mode) /\ get_blob(b, path_to_key(validatepath(path))))
    THEN <<>>
    ELSE b[path_to_key(validatepath(path))]

\* GCSFS.openbin, the temporary file when openbin returns or raises: "none"
\* when GCSFile.factory was not reached, "open" when it was (no exit of openbin
\* closes it)
openbin_tmp(b, path, mode) ==
    IF mode_create(mode)
    THEN (IF openbin_err(b, path, mode) = "ok" THEN "open" ELSE "none")
    ELSE IF strict /\ getinfo(b, path, TRUE) # "file" THEN "none"
    ELSE "open"

\* openbin, were the cursor left where the download ended
openbin_pos_end(b, path, mode) == Len(openbin_buf(b, path, mode))

\* openbin, were the cursor of an appending handle at the start
openbin_pos_start(b, path, mode) == 0

\* GCSFS.openbin, the cursor of the handle returned: at the end of what an
\* appending open downloaded, at 0 otherwise (gcs_file.seek(0))
openbin_pos(b, path, mode) ==
    IF mode_create(mode) THEN Len(openbin_buf(b, path, mode)) ELSE 0

\* file.write(data) on the temporary file: data replaces what is at the
\* cursor and extends the file; a gap between the end and the cursor reads as
\* zero bytes
file_write(buf, pos, data) ==
    [i \in 1..(IF pos + Len(data) > Len(buf) THEN pos + Len(data) ELSE Len(buf)) |->
        IF i > pos /\ i <= pos + Len(data) THEN data[i - pos]
        ELSE IF i <= Len(buf) THEN buf[i] ELSE 0]

\* file.truncate(size) on the temporary file: cut, or extended with zero bytes
file_truncate(buf, size) == [i \in 1..size |-> IF i <= Len(buf) THEN buf[i] ELSE 0]

\* file.read(n) on the temporary file: up to n bytes from the cursor, all of
\* them when n is negative
file_read(buf, pos, n) ==
    IF pos >= Len(buf) THEN <<>>
    ELSE IF n < 0 \/ pos + n > Len(buf) THEN SubSeq(buf, pos + 1, Len(buf))
    ELSE SubSeq(buf, pos + 1, pos + n)

\* file.seek(offset, whence): the cursor asked for (os.SEEK_SET, SEEK_CUR,
\* SEEK_END are 0, 1, 2)
file_seek(buf, pos, offset, whence) ==
    IF whence = 0 THEN offset ELSE IF whence = 1 THEN pos + offset ELSE Len(buf) + offset

\* blob.upload_from_file(file): what is read from the cursor to the end
upload_from_file(buf, pos) == SubSeq(buf, pos + 1, Len(buf))

\* on_close, were it to leave an object that is already stored as it is
on_close_keep(b, key, mode, buf, pos) ==
    IF (mode_create(mode) \/ mode_writing(mode)) /\ ~get_blob(b, key)
    THEN put_blob(b, key, upload_from_file(buf, 0)) ELSE b

\* on_close, were the buffer written over the object instead of replacing it
on_close_patch(b, key, mode, buf, pos) ==
    IF mode_create(mode) \/ mode_writing(mode)
    THEN put_blob(b, key, file_write(IF get_blob(b, key) THEN b[key] ELSE <<>>, 0, buf))
    ELSE b

\* on_close, were the temporary file not rewound before the upload
on_close_tell(b, key, mode, buf, pos) ==
    IF mode_create(mode) \/ mode_writing(mode)
    THEN put_blob(b, key, upload_from_file(buf, pos)) ELSE b

\* on_close of GCSFS.openbin: the bucket after the handle is closed and the
\* upload is done (raw.seek(0), then upload_from_file)
on_close(b, key, mode, buf, pos) ==
    IF mode_create(mode) \/ mode_writing(mode)
    THEN put_blob(b, key, upload_from_file(buf, 0)) ELSE b

(***************************************************************************)
(* GCSFS.fix_storage                                                       *)
(***************************************************************************)
\* the while loop of fix_storage: the names added to all_dirs, and whether
\* the loop can end (dirname has the fixed points "" and "/": when the walk
\* reaches one that is not root_path, name never changes again)
RECURSIVE ancestor_walk(_, _)
ancestor_walk(name, rp) ==
    IF name = rp THEN [dirs |-> {}, ends |-> TRUE]
    ELSE IF dirname(name) = name THEN [dirs |-> {name}, ends |-> FALSE]
    ELSE [dirs |-> {name} \cup ancestor_walk(dirname(name), rp).dirs,
          ends |-> ancestor_walk(dirname(name), rp).ends]

fix_names(b) == list_blobs_all(b, root_path)

fix_marked_dirs(b) == {dirname(name) : name \in {n \in fix_names(b) : endswith(n, "/")}}

fix_all_dirs(b) ==
    UNION {ancestor_walk(dirname(name), root_path).dirs : name \in fix_names(b)}
    \cup (IF forcedir(root_path) # <<"/">> THEN {root_path} ELSE {})

fix_unmarked_dirs(b) == fix_all_dirs(b) \ fix_marked_dirs(b)

\* whether fix_storage returns
fix_storage_ends(b) ==
    \A name \in fix_names(b) : ancestor_walk(dirname(name), root_path).ends

\* GCSFS.fix_storage: the bucket it leaves when it returns
fix_storage(b) ==
    [k \in DOMAIN b \cup {forcedir(d) : d \in fix_unmarked_dirs(b)} |->
        IF k \in {forcedir(d) : d \in fix_unmarked_dirs(b)} THEN EmptyContent ELSE b[k]]

\* __init__, were a missing root never an error
init_err_lenient(b, rp, create, is_strict) == "ok"

(***************************************************************************)
(* The self-healing variant of the directory check (src/gcsfs/_gcsfs.py)   *)
(***************************************************************************)
\* GCSFS._path_to_key of the variant: the joined key keeps a trailing delimiter
healing_path_to_key(path) ==
    lstrip(strjoin(<<prefix_of(root_path), relpath(normpath(path))>>, "/"), "/")

\* GCSFS._path_to_dir_key of the variant
healing_path_to_dir_key(path) == forcedir(healing_path_to_key(path))

\* _check_and_fix_dir, were the marker not written
check_dir_only(b, path) ==
    IF get_blob(b, healing_path_to_dir_key(path)) THEN [b |-> b, ret |-> TRUE]
    ELSE [b |-> b, ret |-> list_blobs_all(b, healing_path_to_dir_key(path)) # {}]

\* GCSFS._check_and_fix_dir: the bucket it leaves and the value it returns
check_and_fix_dir(b, path) ==
    IF get_blob(b, healing_path_to_dir_key(path)) THEN [b |-> b, ret |-> TRUE]
    ELSE IF list_blobs_all(b, healing_path_to_dir_key(path)) # {}
    THEN [b |-> put_blob(b, healing_path_to_dir_key(path), EmptyContent), ret |-> TRUE]
    ELSE [b |-> b, ret |-> FALSE]

\* getinfo of the variant, after the check of the parent left bucket b
healing_getinfo_at(b, vpath) ==
    IF vpath = <<"/">> THEN [b |-> b, err |-> "dir"]
    ELSE IF get_blob(b, healing_path_to_key(vpath)) THEN [b |-> b, err |-> "file"]
    ELSE [b |-> check_and_fix_dir(b, vpath).b,
          err |-> IF check_and_fix_dir(b, vpath).ret THEN "dir" ELSE "ResourceNotFound"]

\* GCSFS.getinfo of the variant: the bucket it leaves and what it resolves
healing_getinfo(b, path, check_parent_dir) ==
    IF check_parent_dir /\ dirname(validatepath(path)) # <<"/">>
    THEN IF check_and_fix_dir(b, dirname(validatepath(path))).ret
         THEN healing_getinfo_at(check_and_fix_dir(b, dirname(validatepath(path))).b,
                                 validatepath(path))
         ELSE [b |-> b, err |-> "ResourceNotFound"]
    ELSE healing_getinfo_at(b, validatepath(path))

(***************************************************************************)
(* GCSMap: the filesystem as a mapping from keys to bytes                  *)
(***************************************************************************)
\* the deepest directory FS.walk goes down to from the root
MaxDepth == 3

\* fs.path.join of a directory path and a name
join(path, name) == IF path = <<"/">> THEN path \o name ELSE path \o <<"/">> \o name

\* FS.walk from path: the files listed in each directory, with the path of the
\* directory
RECURSIVE walk_files(_, _, _)
walk_files(b, path, depth) ==
    IF depth = 0 \/ scandir_err(b, path) # "ok" THEN {}
    ELSE {[path |-> path, name |-> f] : f \in scandir_files(b, path)}
         \cup UNION {walk_files(b, join(path, d), depth - 1) : d \in scandir_dirs(b, path)}

\* FS.walk from path: the error that listing a directory raises, or "ok"
RECURSIVE walk_err(_, _, _)
walk_err(b, path, depth) ==
    IF depth = 0 THEN "ok"
    ELSE IF scandir_err(b, path) # "ok" THEN scandir_err(b, path)
    ELSE IF \A d \in scandir_dirs(b, path) : walk_err(b, join(path, d), depth - 1) = "ok"
    THEN "ok"
    ELSE "DirectoryExpected"

\* GCSMap.keys: file.name of every file that walk(".") yields
keys(b) == {e.name : e \in walk_files(b, <<"/">>, MaxDepth)}

\* GCSMap.__getitem__: getbytes(key), ResourceNotFound raised as KeyError
getitem(b, key) ==
    IF openbin_err(b, key, <<"r">>) = "ResourceNotFound" THEN [err |-> "KeyError", val |-> <<>>]
    ELSE IF openbin_err(b, key, <<"r">>) # "ok"
    THEN [err |-> openbin_err(b, key, <<"r">>), val |-> <<>>]
    ELSE [err |-> "ok", val |-> openbin_buf(b, key, <<"r">>)]

\* setbytes(key, value): openbin(key, "w"), write, close
setbytes(b, key, value) ==
    IF openbin_err(b, key, <<"w">>) # "ok" THEN [b |-> b, err |-> openbin_err(b, key, <<"w">>)]
    ELSE [b |-> on_close(b, path_to_key(validatepath(key)), <<"w">>,
                         file_write(<<>>, 0, value), Len(value)),
          err |-> "ok"]

\* GCSMap.__setitem__, after makedirs(dirname(key), recreate=True) left r
setitem_after(r, key, value) ==
    IF r.err # "ok" THEN r ELSE setbytes(r.b, key, value)

\* GCSMap.__setitem__
setitem(b, key, value) == setitem_after(makedirs(b, dirname(key), TRUE), key, value)

\* GCSMap.__delitem__
delitem(b, key) == remove(b, key)

(***************************************************************************)
(* GCSFS.__init__                                                          *)
(***************************************************************************)
\* the error the constructor raises over bucket b ("ok" when none)
init_err(b, rp, create, is_strict) ==
    IF prefix_of(rp) # <<>> /\ ~create /\ is_strict
       /\ ~get_blob(b, prefix_of(rp) \o <<DELIMITER>>)
    THEN "CreateFailed" ELSE "ok"

\* __init__, were the marker written at root_path as given, not normalized
init_bucket_raw(b, rp, create) ==
    IF rp # <<>> /\ create /\ ~get_blob(b, rp \o <<DELIMITER>>)
    THEN put_blob(b, rp \o <<DELIMITER>>, EmptyContent)
    ELSE b

\* the bucket the constructor leaves
init_bucket(b, rp, create) ==
    IF prefix_of(rp) # <<>> /\ create /\ ~get_blob(b, prefix_of(rp) \o <<DELIMITER>>)
    THEN put_blob(b, prefix_of(rp) \o <<DELIMITER>>, EmptyContent)
    ELSE b


EmptyBucket == [k \in {} |-> <<>>]
FreeHandle == [st |-> "free", path |-> <<>>, key |-> <<>>, mode |-> <<>>, buf |-> <<>>, pos |-> 0]

\* the record of a call: its name and arguments, the error it raised ("ok"
\* when none), the bucket before it, the buffer of the handle it is about, and
\* what it returned when that is a listing (for openbin, the state of the
\* temporary file)
Call(op, path, dst, flag, err, pre, buf) ==
    [op |-> op, path |-> path, dst |-> dst, flag |-> flag, err |-> err, pre |-> pre, buf |-> buf,
     out |-> <<>>]

\* no call has returned that the caller has not taken the result of
NoCall == Call("none", <<>>, <<>>, FALSE, "ok", EmptyBucket, <<>>)

(***************************************************************************)
(* Actions: one per call of the GCSFS API.  The API is synchronous: a call *)
(* is made when the caller has taken the result of the one before.         *)
(***************************************************************************)
Init ==
    /\ root_path \in RootPaths
    /\ strict \in BOOLEAN
    /\ bucket = init_bucket(EmptyBucket, root_path, TRUE)
    /\ handles = [h \in 1..MaxHandles |-> FreeHandle]
    /\ last = Call("init", <<>>, <<>>, TRUE, init_err(EmptyBucket, root_path, TRUE, strict),
                   EmptyBucket, <<>>)

\* the caller takes the result of the last call
Return ==
    /\ last # NoCall
    /\ last' = NoCall
    /\ UNCHANGED <<root_path, strict, bucket, handles>>

Makedir(path, recreate) ==
    \E r \in {makedir(bucket, path, recreate)} :
    /\ last = NoCall
    /\ bucket' = r.b
    /\ last' = Call("makedir", validatepath(path), <<>>, recreate, r.err, bucket, <<>>)
    /\ UNCHANGED <<root_path, strict, handles>>

Makedirs(path, recreate) ==
    \E r \in {makedirs(bucket, path, recreate)} :
    /\ last = NoCall
    /\ bucket' = r.b
    /\ last' = Call("makedirs", validatepath(path), <<>>, recreate, r.err, bucket, <<>>)
    /\ UNCHANGED <<root_path, strict, handles>>

Removedir(path) ==
    \E r \in {removedir(bucket, path)} :
    /\ last = NoCall
    /\ bucket' = r.b
    /\ last' = Call("removedir", validatepath(path), <<>>, FALSE, r.err, bucket, <<>>)
    /\ UNCHANGED <<root_path, strict, handles>>

Remove(path) ==
    \E r \in {remove(bucket, path)} :
    /\ last = NoCall
    /\ bucket' = r.b
    /\ last' = Call("remove", validatepath(path), <<>>, FALSE, r.err, bucket, <<>>)
    /\ UNCHANGED <<root_path, strict, handles>>

Copy(src_path, dst_path, overwrite) ==
    \E r \in {copy(bucket, src_path, dst_path, overwrite)} :
    /\ last = NoCall
    /\ bucket' = r.b
    /\ last' = Call("copy", validatepath(src_path), validatepath(dst_path), overwrite,
                    r.err, bucket, <<>>)
    /\ UNCHANGED <<root_path, strict, handles>>

Move(src_path, dst_path, overwrite) ==
    \E r \in {move(bucket, src_path, dst_path, overwrite)} :
    /\ last = NoCall
    /\ bucket' = r.b
    /\ last' = Call("move", validatepath(src_path), validatepath(dst_path), overwrite,
                    r.err, bucket, <<>>)
    /\ UNCHANGED <<root_path, strict, handles>>

\* GCSFS.openbin: handle h is the GCSFile returned; the state of the temporary
\* file is the out of the call
OpenBin(h, path, mode) ==
    LET err == openbin_err(bucket, path, mode) IN
    /\ last = NoCall
    /\ handles[h].st = "free"
    /\ handles' = IF err # "ok" THEN handles
                  ELSE [handles EXCEPT ![h] =
                           [st |-> "open", path |-> validatepath(path),
                            key |-> path_to_key(validatepath(path)), mode |-> mode,
                            buf |-> openbin_buf(bucket, path, mode),
                            pos |-> openbin_pos(bucket, path, mode)]]
    /\ last' = [Call("openbin", validatepath(path), <<>>, mode, err, bucket,
                     IF err # "ok" THEN <<>> ELSE openbin_buf(bucket, path, mode))
                   EXCEPT !.out = openbin_tmp(bucket, path, mode)]
    /\ UNCHANGED <<root_path, strict, bucket>>

\* GCSFile.write
Write(h, data) ==
    LET f   == handles[h]
        err == IF mode_writing(f.mode) THEN "ok" ELSE "IOError"
        buf == IF err = "ok" THEN file_write(f.buf, f.pos, data) ELSE f.buf
    IN
    /\ last = NoCall
    /\ f.st = "open"
    /\ handles' = [handles EXCEPT ![h].buf = buf,
                                  ![h].pos = IF err = "ok" THEN f.pos + Len(data) ELSE f.pos]
    /\ last' = Call("write", f.path, <<>>, f.mode, err, bucket, buf)
    /\ UNCHANGED <<root_path, strict, bucket>>

\* GCSFile.truncate: size is <<>> for None (the cursor), <<n>> for n
Truncate(h, size) ==
    LET f   == handles[h]
        n   == IF size = <<>> THEN f.pos ELSE size[1]
        buf == file_truncate(f.buf, n)
    IN
    /\ last = NoCall
    /\ f.st = "open"
    /\ handles' = [handles EXCEPT ![h].buf = buf]
    /\ last' = Call("truncate", f.path, <<>>, f.mode, "ok", bucket, buf)
    /\ UNCHANGED <<root_path, strict, bucket>>

\* GCSFile.seek
Seek(h, offset, whence) ==
    LET f   == handles[h]
        err == IF whence \notin {0, 1, 2} THEN "ValueError"
               ELSE IF file_seek(f.buf, f.pos, offset, whence) < 0 THEN "OSError"
               ELSE "ok"
    IN
    /\ last = NoCall
    /\ f.st = "open"
    /\ handles' = [handles EXCEPT ![h].pos =
                      IF err = "ok" THEN file_seek(f.buf, f.pos, offset, whence) ELSE f.pos]
    /\ last' = Call("seek", f.path, <<>>, f.mode, err, bucket, f.buf)
    /\ UNCHANGED <<root_path, strict, bucket>>

\* GCSFile.read: the bytes returned are recorded as the buffer of the call
Read(h, n) ==
    LET f    == handles[h]
        err  == IF mode_reading(f.mode) THEN "ok" ELSE "IOError"
        data == IF err = "ok" THEN file_read(f.buf, f.pos, n) ELSE <<>>
    IN
    /\ last = NoCall
    /\ f.st = "open"
    /\ handles' = [handles EXCEPT ![h].pos = f.pos + Len(data)]
    /\ last' = Call("read", f.path, <<>>, f.mode, err, bucket, data)
    /\ UNCHANGED <<root_path, strict, bucket>>

\* GCSFile.flush
Flush(h) ==
    LET f == handles[h] IN
    /\ last = NoCall
    /\ f.st = "open"
    /\ last' = Call("flush", f.path, <<>>, f.mode, "ok", bucket, f.buf)
    /\ UNCHANGED <<root_path, strict, bucket, handles>>

\* GCSFile.close: on_close uploads the buffer, then closes the temporary
\* file and the handle is dropped.  When upload_from_file raises (uploads is
\* FALSE) the exception leaves on_close before raw.close(): the object is as
\* it was, the temporary file stays open, its cursor where the upload stopped
\* reading.
Close(h, uploads) ==
    LET f == handles[h] IN
    /\ last = NoCall
    /\ f.st = "open"
    /\ uploads \/ mode_create(f.mode) \/ mode_writing(f.mode)
    /\ IF uploads
       THEN /\ bucket' = on_close(bucket, f.key, f.mode, f.buf, f.pos)
            /\ handles' = [handles EXCEPT ![h] = FreeHandle]
       ELSE /\ bucket' = bucket
            /\ \E pos \in 0..Len(f.buf) : handles' = [handles EXCEPT ![h].pos = pos]
    /\ last' = Call("close", f.path, <<>>, f.mode,
                    IF uploads THEN "ok" ELSE "GoogleCloudError", bucket, f.buf)
    /\ UNCHANGED <<root_path, strict>>

\* GCSFS.fix_storage, when it returns
FixStorage ==
    /\ last = NoCall
    /\ fix_storage_ends(bucket)
    /\ bucket' = fix_storage(bucket)
    /\ last' = Call("fix_storage", <<>>, <<>>, FALSE, "ok", bucket, <<>>)
    /\ UNCHANGED <<root_path, strict, handles>>

Next ==
    \/ Return
    \/ \E path \in Paths, recreate \in BOOLEAN : Makedir(path, recreate)
    \/ \E path \in Paths, recreate \in BOOLEAN : Makedirs(path, recreate)
    \/ \E path \in Paths : Removedir(path)
    \/ \E path \in Paths \ {Root} : Remove(path)
    \/ \E src \in FilePaths, dst \in FilePaths, overwrite \in BOOLEAN : Copy(src, dst, overwrite)
    \/ \E src \in FilePaths, dst \in FilePaths, overwrite \in BOOLEAN : Move(src, dst, overwrite)
    \/ \E h \in 1..MaxHandles, path \in FilePaths \cup {Root}, mode \in Modes : OpenBin(h, path, mode)
    \/ \E h \in 1..MaxHandles, d \in Bytes :
          handles[h].pos + 1 <= MaxLen /\ Write(h, <<d>>)
    \/ \E h \in 1..MaxHandles : Close(h, TRUE)
    \/ FixStorage

\* the filesystem over a store that answers every request
Spec == Init /\ [][Next]_vars

(***************************************************************************)
(* A bucket that other tools write to: objects are uploaded under the root *)
(* without the markers of their directories, and fix_storage is run        *)
(***************************************************************************)
InitFix ==
    /\ root_path \in RootPaths \cup SlashRootPaths
    /\ strict \in BOOLEAN
    /\ bucket = init_bucket(EmptyBucket, root_path, TRUE)
    /\ handles = [h \in 1..MaxHandles |-> FreeHandle]
    /\ last = Call("init", <<>>, <<>>, TRUE, init_err(EmptyBucket, root_path, TRUE, strict),
                   EmptyBucket, <<>>)

\* bucket.blob(key).upload_from_string(content), key = _path_to_key(path) or
\* the marker key of path
Upload(path, is_marker, content) ==
    LET key == IF is_marker THEN path_to_dir_key(path) ELSE path_to_key(path) IN
    /\ last = NoCall
    /\ bucket' = put_blob(bucket, key, content)
    /\ last' = Call("upload", path, <<>>, is_marker, "ok", bucket, content)
    /\ UNCHANGED <<root_path, strict, handles>>

\* keys that another client of the bucket writes and no path of the
\* filesystem maps to: a key with an empty segment
RawKeys == {<<"a", "/", "/", "b">>}

\* bucket.blob(key).upload_from_string(content) by another client of the bucket
UploadRaw(key, content) ==
    /\ last = NoCall
    /\ bucket' = put_blob(bucket, key, content)
    /\ last' = Call("upload_raw", key, <<>>, FALSE, "ok", bucket, content)
    /\ UNCHANGED <<root_path, strict, handles>>

\* GCSFS.getinfo: the state resolved, or the error raised
GetInfo(path, check_parent_dir) ==
    /\ last = NoCall
    /\ last' = Call("getinfo", validatepath(path), <<>>, check_parent_dir,
                    getinfo(bucket, path, check_parent_dir), bucket, <<>>)
    /\ UNCHANGED <<root_path, strict, bucket, handles>>

\* GCSFS.listdir: what is listed is recorded as the out of the call
Listdir(path) ==
    \E err \in {scandir_err(bucket, path)} :
    /\ last = NoCall
    /\ last' = [Call("listdir", validatepath(path), <<>>, FALSE, err, bucket, <<>>)
                   EXCEPT !.out = IF err = "ok" THEN listdir(bucket, path) ELSE <<>>]
    /\ UNCHANGED <<root_path, strict, bucket, handles>>

NextFix ==
    \/ Return
    \/ \E path \in FilePaths \cup {PathABA}, is_marker \in BOOLEAN,
          content \in {EmptyContent} \cup {<<d>> : d \in Bytes} : Upload(path, is_marker, content)
    \/ \E key \in RawKeys, content \in {EmptyContent} \cup {<<d>> : d \in Bytes} :
          UploadRaw(key, content)
    \/ FixStorage
    \/ \E path \in Paths, check_parent_dir \in BOOLEAN : GetInfo(path, check_parent_dir)
    \/ \E path \in Paths \cup {<<>>} : Listdir(path)

SpecFix == InitFix /\ [][NextFix]_vars


(***************************************************************************)
(* SpecHealing: the directory check of the self-healing variant, over a    *)
(* bucket that other clients put objects and markers into.                 *)
(***************************************************************************)
InitHealing ==
    /\ root_path \in RootPaths
    /\ strict \in BOOLEAN
    /\ bucket = EmptyBucket
    /\ handles = [h \in 1..MaxHandles |-> FreeHandle]
    /\ last = NoCall

\* GCSFS._check_and_fix_dir: the value returned is the out of the call
CheckAndFixDir(path) ==
    \E r \in {check_and_fix_dir(bucket, path)} :
    /\ last = NoCall
    /\ bucket' = r.b
    /\ last' = [Call("check_and_fix_dir", path, <<>>, FALSE, "ok", bucket, <<>>)
                   EXCEPT !.out = r.ret]
    /\ UNCHANGED <<root_path, strict, handles>>

\* GCSFS.getinfo of the variant
HealingGetInfo(path, check_parent_dir) ==
    \E r \in {healing_getinfo(bucket, path, check_parent_dir)} :
    /\ last = NoCall
    /\ bucket' = r.b
    /\ last' = Call("healing_getinfo", validatepath(path), <<>>, check_parent_dir, r.err,
                    bucket, <<>>)
    /\ UNCHANGED <<root_path, strict, handles>>

NextHealing ==
    \/ Return
    \/ \E path \in FilePaths \cup {PathABA}, is_marker \in BOOLEAN :
          Upload(path, is_marker, EmptyContent)
    \/ \E path \in Paths : CheckAndFixDir(path)
    \/ \E path \in Paths, check_parent_dir \in BOOLEAN : HealingGetInfo(path, check_parent_dir)

SpecHealing == InitHealing /\ [][NextHealing]_vars

(***************************************************************************)
(* SpecRepair: fix_storage is run, statement by statement, on a bucket     *)
(* that other tools have written to.  While it runs, last holds its local  *)
(* variables: out the names not yet visited by the for loop, path the name *)
(* of the while loop, flag whether the while loop is being executed.       *)
(***************************************************************************)
\* root_path as given to the constructor: none, plain, with a leading and
\* with a trailing slash
RepairRootPaths == {<<>>, <<"r">>, <<"/", "r">>, <<"r", "/">>}

\* the keys stored before the repair: under the root "r", beside it, and
\* outside of it
RepairKeys ==
    {<<"r", "/">>, <<"r", "/", "a">>, <<"r", "/", "a", "/", "b">>, <<"r", "b">>,
     <<"a", "/", "b">>}

\* a filesystem constructed (create=False) on a bucket with some of the keys
InitRepair ==
    /\ root_path \in RepairRootPaths
    /\ strict \in BOOLEAN
    /\ bucket \in {[k \in S |-> EmptyContent] : S \in SUBSET RepairKeys}
    /\ init_err(bucket, root_path, FALSE, strict) = "ok"
    /\ handles = [h \in 1..MaxHandles |-> FreeHandle]
    /\ last = NoCall

\* fix_storage is called: names is listed, the sets are empty
FixStorageCall ==
    /\ last = NoCall
    /\ last' = [Call("fix_storage_loop", <<>>, <<>>, FALSE, "running", bucket, <<>>)
                   EXCEPT !.out = fix_names(bucket)]
    /\ UNCHANGED <<root_path, strict, bucket, handles>>

\* for name in names: ...; name = dirname(name)
FixStorageFor ==
    /\ last.op = "fix_storage_loop" /\ ~last.flag
    /\ \E name \in last.out :
          last' = [last EXCEPT !.out = last.out \ {name}, !.path = dirname(name), !.flag = TRUE]
    /\ UNCHANGED <<root_path, strict, bucket, handles>>

\* while name != self.root_path: all_dirs.add(name); name = dirname(name)
FixStorageWhile ==
    /\ last.op = "fix_storage_loop" /\ last.flag
    /\ last.path # root_path
    /\ last' = [last EXCEPT !.path = dirname(last.path)]
    /\ UNCHANGED <<root_path, strict, bucket, handles>>

\* the while loop is left: name == self.root_path
FixStorageWhileEnd ==
    /\ last.op = "fix_storage_loop" /\ last.flag
    /\ last.path = root_path
    /\ last' = [last EXCEPT !.path = <<>>, !.flag = FALSE]
    /\ UNCHANGED <<root_path, strict, bucket, handles>>

\* the for loop is left: the missing markers are uploaded and the call returns
FixStorageReturn ==
    /\ last.op = "fix_storage_loop" /\ ~last.flag
    /\ last.out = {}
    /\ bucket' = fix_storage(bucket)
    /\ last' = Call("fix_storage", <<>>, <<>>, FALSE, "ok", bucket, <<>>)
    /\ UNCHANGED <<root_path, strict, handles>>

NextRepair ==
    \/ last.op # "fix_storage_loop" /\ Return
    \/ FixStorageCall
    \/ FixStorageFor
    \/ FixStorageWhile
    \/ FixStorageWhileEnd
    \/ FixStorageReturn

\* the interpreter executes the next statement of a running call
SpecRepair == InitRepair /\ [][NextRepair]_vars /\ WF_vars(NextRepair)

(***************************************************************************)
(* SpecClose: the caller keeps a GCSFile after closing it and calls close  *)
(* again, while another writer uploads to the bucket.                      *)
(***************************************************************************)
\* GCSFile.close on a handle whose temporary file is closed: on_close runs
\* again (close has no guard); for a writing mode raw.seek(0) raises
\* ValueError on the closed file before anything is uploaded, for a reading
\* mode only raw.close() runs, which does nothing on a closed file
close_again(b, mode) ==
    IF mode_create(mode) \/ mode_writing(mode)
    THEN [b |-> b, err |-> "ValueError"]
    ELSE [b |-> b, err |-> "ok"]

\* GCSFile.close, the upload succeeding, by a caller that keeps the GCSFile
CloseKept(h) ==
    LET f == handles[h] IN
    /\ last = NoCall
    /\ f.st = "open"
    /\ bucket' = on_close(bucket, f.key, f.mode, f.buf, f.pos)
    /\ handles' = [handles EXCEPT ![h].st = "closed"]
    /\ last' = Call("close", f.path, <<>>, f.mode, "ok", bucket, f.buf)
    /\ UNCHANGED <<root_path, strict>>

\* GCSFile.close on a GCSFile that was closed before
CloseAgain(h) ==
    \E r \in {close_again(bucket, handles[h].mode)} :
    /\ last = NoCall
    /\ handles[h].st = "closed"
    /\ bucket' = r.b
    /\ last' = Call("close_again", handles[h].path, <<>>, handles[h].mode, r.err, bucket,
                    handles[h].buf)
    /\ UNCHANGED <<root_path, strict, handles>>

NextClose ==
    \/ Return
    \/ \E h \in 1..MaxHandles, path \in FilePaths, mode \in Modes : OpenBin(h, path, mode)
    \/ \E h \in 1..MaxHandles, d \in Bytes :
          handles[h].pos + 1 <= MaxLen /\ Write(h, <<d>>)
    \/ \E h \in 1..MaxHandles : CloseKept(h)
    \/ \E h \in 1..MaxHandles : CloseAgain(h)
    \/ \E path \in FilePaths, content \in {EmptyContent} \cup {<<d>> : d \in Bytes} :
          Upload(path, FALSE, content)

SpecClose == Init /\ [][NextClose]_vars

(***************************************************************************)
(* SpecMap: the mapping of get_mapper() is written, read, deleted from and *)
(* iterated.                                                               *)
(***************************************************************************)
\* the keys of the mapping operations
MapKeys == {<<"a">>, <<"b">>, <<"a", "/", "b">>}

\* d[key] = value
SetItem(key, value) ==
    \E r \in {setitem(bucket, key, value)} :
    /\ last = NoCall
    /\ bucket' = r.b
    /\ last' = Call("setitem", key, <<>>, FALSE, r.err, bucket, value)
    /\ UNCHANGED <<root_path, strict, handles>>

\* d[key]
GetItem(key) ==
    \E r \in {getitem(bucket, key)} :
    /\ last = NoCall
    /\ last' = Call("getitem", key, <<>>, FALSE, r.err, bucket, r.val)
    /\ UNCHANGED <<root_path, strict, bucket, handles>>

\* del d[key]
DelItem(key) ==
    \E r \in {delitem(bucket, key)} :
    /\ last = NoCall
    /\ bucket' = r.b
    /\ last' = Call("delitem", key, <<>>, FALSE, r.err, bucket, <<>>)
    /\ UNCHANGED <<root_path, strict, handles>>

\* list(d.keys()): the files walk yields are the out of the call
Keys ==
    \E err \in {walk_err(bucket, <<"/">>, MaxDepth)} :
    /\ last = NoCall
    /\ last' = [Call("keys", <<>>, <<>>, FALSE, err, bucket, <<>>)
                   EXCEPT !.out = IF err = "ok" THEN walk_files(bucket, <<"/">>, MaxDepth)
                                  ELSE <<>>]
    /\ UNCHANGED <<root_path, strict, bucket, handles>>

NextMap ==
    \/ Return
    \/ \E key \in MapKeys, value \in {EmptyContent} \cup {<<d>> : d \in Bytes} :
          SetItem(key, value)
    \/ \E key \in MapKeys : GetItem(key)
    \/ \E key \in MapKeys : DelItem(key)
    \/ Keys

SpecMap == Init /\ [][NextMap]_vars

(***************************************************************************)
(* SpecInit: GCSFS is constructed, with every root_path, create and strict, *)
(* over a bucket that other clients have put objects into.                 *)
(***************************************************************************)
\* the root_path values of the constructor calls: three that mean no prefix,
\* and two with the prefix "r"
InitRootPaths == {<<>>, <<".">>, <<"/">>, <<"r">>, <<"/", "r">>}

\* the keys other clients put objects at: the root marker, a file named as
\* the root, and the keys root_path + "/" of the root paths without prefix
InitKeys == {<<"r", "/">>, <<"r">>, <<"/">>, <<".", "/">>}

\* GCSFS.__init__: the filesystem is the one constructed last; the strict
\* argument is recorded as the dst of the call
Construct(rp, create, is_strict) ==
    \E err \in {init_err(bucket, rp, create, is_strict)} :
    /\ last = NoCall
    /\ bucket' = IF err = "ok" THEN init_bucket(bucket, rp, create) ELSE bucket
    /\ root_path' = IF err = "ok" THEN rp ELSE root_path
    /\ strict' = IF err = "ok" THEN is_strict ELSE strict
    /\ last' = Call("init", rp, <<is_strict>>, create, err, bucket, <<>>)
    /\ UNCHANGED handles

InitAny ==
    /\ root_path = <<>>
    /\ strict = TRUE
    /\ bucket = EmptyBucket
    /\ handles = [h \in 1..MaxHandles |-> FreeHandle]
    /\ last = NoCall

NextInit ==
    \/ Return
    \/ \E key \in InitKeys, content \in {EmptyContent} \cup {<<d>> : d \in Bytes} :
          UploadRaw(key, content)
    \/ \E rp \in InitRootPaths, create \in BOOLEAN, is_strict \in BOOLEAN :
          Construct(rp, create, is_strict)

SpecInit == InitAny /\ [][NextInit]_vars

(***************************************************************************)
(* SpecFile: the operations of a handle, on buffers of up to MaxFileLen    *)
(* bytes, over a store whose uploads may fail.                             *)
(***************************************************************************)
MaxFileLen == 2

NextFile ==
    \/ Return
    \/ Makedir(PathA, FALSE)
    \/ \E h \in 1..MaxHandles, path \in FilePaths, mode \in Modes : OpenBin(h, path, mode)
    \/ \E h \in 1..MaxHandles, d \in Bytes :
          handles[h].pos + 1 <= MaxFileLen /\ Write(h, <<d>>)
    \/ \E h \in 1..MaxHandles, size \in {<<>>} \cup {<<n>> : n \in 0..MaxFileLen} :
          Truncate(h, size)
    \/ \E h \in 1..MaxHandles, offset \in -1..MaxFileLen, whence \in 0..3 :
          /\ file_seek(handles[h].buf, handles[h].pos, offset, whence) <= MaxFileLen
          /\ Seek(h, offset, whence)
    \/ \E h \in 1..MaxHandles, n \in {-1, 1} : Read(h, n)
    \/ \E h \in 1..MaxHandles : Flush(h)
    \/ \E h \in 1..MaxHandles, uploads \in BOOLEAN : Close(h, uploads)

SpecFile == Init /\ [][NextFile]_vars

(***************************************************************************)
(* SpecShared: SharedHandles handles are open at the same time on one path *)
(***************************************************************************)
SharedHandles == 2

\* the bytes the handles write: one value for each handle to tell them apart
SharedBytes == {1, 2}

InitShared ==
    /\ root_path \in RootPaths
    /\ strict \in BOOLEAN
    /\ bucket = init_bucket(EmptyBucket, root_path, TRUE)
    /\ handles = [h \in 1..SharedHandles |-> FreeHandle]
    /\ last = Call("init", <<>>, <<>>, TRUE, init_err(EmptyBucket, root_path, TRUE, strict),
                   EmptyBucket, <<>>)

NextShared ==
    \/ Return
    \/ \E h \in 1..SharedHandles, mode \in Modes : OpenBin(h, PathA, mode)
    \/ \E h \in 1..SharedHandles, d \in SharedBytes :
          handles[h].pos + 1 <= MaxFileLen /\ Write(h, <<d>>)
    \/ \E h \in 1..SharedHandles : Read(h, 1)
    \/ \E h \in 1..SharedHandles : Close(h, TRUE)

SpecShared == InitShared /\ [][NextShared]_vars

(***************************************************************************)
(* The path translation on its own: _path_to_key is called with every path *)
(* made of up to MaxSegments segments                                       *)
(***************************************************************************)
\* the longest path _path_to_key is called with, in segments
MaxSegments == 3
\* the segments of those paths: names, '..', '.', and the empty segment
\* (a leading, trailing or doubled '/')
Segments == {<<"a">>, <<"b">>, <<".", ".">>, <<".">>, <<>>}

PathInputs ==
    {strjoin(segs, "/") : segs \in UNION {[1..n -> Segments] : n \in 1..MaxSegments}}

\* GCSFS._path_to_key(path): the key returned, or the error normpath raises
PathToKey(path) ==
    /\ last = NoCall
    /\ last' = IF IllegalBackReference(path)
               THEN Call("path_to_key", path, <<>>, FALSE, "IllegalBackReference", bucket, <<>>)
               ELSE Call("path_to_key", path, path_to_key(path), FALSE, "ok", bucket, <<>>)
    /\ UNCHANGED <<root_path, strict, bucket, handles>>

NextPath ==
    \/ Return
    \/ \E path \in PathInputs : PathToKey(path)

SpecPath == InitFix /\ [][NextPath]_vars

(***************************************************************************)
(* Properties.  A path's state is what getinfo resolves with the parent    *)
(* check: Absent (ResourceNotFound), File or Directory.                    *)
(***************************************************************************)
\* the directory markers of a bucket, with their content
Markers(b) == [k \in {x \in DOMAIN b : endswith(x, DELIMITER)} |-> b[k]]

\* some object other than the marker lies under the directory's dir_key, so
\* that listing the directory yields at least one entry
HasEntries(b, path) ==
    \E k \in DOMAIN b : k # path_to_dir_key(path) /\ startswith(k, path_to_dir_key(path))

\* C1: Write/read round trip.  Opening x in write mode succeeds with an
\* empty buffer when the parent of x is a directory and x is not one, whatever
\* is stored at x; once the handle is closed, opening x for read succeeds and
\* returns exactly the bytes written; a read handle holds the object's content.
C1_WriteReadRoundTrip ==
    /\ (/\ last.op = "openbin" /\ last.flag = <<"w">> /\ last.path # Root
        /\ isdir(last.pre, dirname(last.path))
        /\ getinfo(last.pre, last.path, TRUE) # "dir")
       => (last.err = "ok" /\ last.buf = <<>>)
    /\ (last.op = "close" /\ last.flag = <<"w">> /\ isdir(bucket, dirname(last.path)))
       => /\ openbin_err(bucket, last.path, <<"r">>) = "ok"
          /\ openbin_buf(bucket, last.path, <<"r">>) = last.buf
    /\ (last.op = "openbin" /\ last.flag = <<"r">> /\ last.err = "ok")
       => last.buf = last.pre[path_to_key(last.path)]

\* C1 witness: a write handle is closed over an object with other content
C1_Witness ==
    /\ last.op = "close" /\ last.flag = <<"w">> /\ last.buf = <<1>>
    /\ path_to_key(last.path) \in DOMAIN last.pre
    /\ last.pre[path_to_key(last.path)] # <<1>>
    /\ isdir(bucket, dirname(last.path))

\* C2: Exclusive create.  Opening an existing path (a file or a directory)
\* with create+exclusive fails with FileExists and leaves the bucket as it
\* was; on an absent path whose parent is a directory it succeeds, and after
\* close the path is a file that can be opened for read.
C2_ExclusiveCreate ==
    /\ (/\ last.op = "openbin" /\ mode_exclusive(last.flag)
        /\ getinfo(last.pre, last.path, TRUE) # "ResourceNotFound")
       => (last.err = "FileExists" /\ bucket = last.pre)
    /\ (/\ last.op = "openbin" /\ mode_exclusive(last.flag)
        /\ getinfo(last.pre, last.path, TRUE) = "ResourceNotFound"
        /\ isdir(last.pre, dirname(last.path)))
       => (last.err = "ok" /\ \E h \in DOMAIN handles : handles[h].path = last.path)
    /\ (/\ last.op = "close" /\ mode_exclusive(last.flag)
        /\ isdir(bucket, dirname(last.path)))
       => /\ getinfo(bucket, last.path, TRUE) = "file"
          /\ openbin_err(bucket, last.path, <<"r">>) = "ok"
          /\ openbin_buf(bucket, last.path, <<"r">>) = last.buf

\* C2 witness: exclusive create is refused on an existing file
C2_Witness ==
    /\ last.op = "openbin" /\ mode_exclusive(last.flag) /\ last.err = "FileExists"
    /\ getinfo(last.pre, last.path, TRUE) = "file"

\* C3: Directory emptiness gate.  removedir on a directory (other than the
\* root, which C4 covers) with at least one entry fails with
\* DirectoryNotEmpty and keeps the marker; with no entry it deletes the
\* marker; so once the last entry is removed, removedir succeeds.
C3_DirectoryEmptinessGate ==
    /\ (/\ last.op = "removedir" /\ last.path # Root
        /\ getinfo(last.pre, last.path, TRUE) = "dir")
       => IF HasEntries(last.pre, last.path)
          THEN /\ last.err = "DirectoryNotEmpty"
               /\ bucket = last.pre
               /\ path_to_dir_key(last.path) \in DOMAIN bucket
          ELSE /\ last.err = "ok"
               /\ bucket = delete_blob(last.pre, path_to_dir_key(last.path))
    /\ (/\ last.op \in {"remove", "removedir"} /\ last.err = "ok"
        /\ dirname(last.path) # Root
        /\ getinfo(bucket, dirname(last.path), TRUE) = "dir"
        /\ ~HasEntries(bucket, dirname(last.path)))
       => removedir(bucket, dirname(last.path)).err = "ok"

\* C3 witness: the last entry of a directory has just been removed
C3_Witness ==
    /\ last.op = "remove" /\ last.err = "ok"
    /\ dirname(last.path) # Root
    /\ getinfo(bucket, dirname(last.path), TRUE) = "dir"
    /\ HasEntries(last.pre, dirname(last.path))
    /\ ~HasEntries(bucket, dirname(last.path))
    /\ removedir(last.pre, dirname(last.path)).err = "DirectoryNotEmpty"

\* C4: Root protection.  removedir("/") fails with RemoveRootError and
\* deletes nothing, whatever the bucket holds and whatever the root prefix.
C4_RootProtection ==
    (last.op = "removedir" /\ last.path = Root)
    => (last.err = "RemoveRootError" /\ bucket = last.pre)

\* C4 witness: removedir("/") on a filesystem under a root prefix whose
\* root directory is empty
C4_Witness ==
    /\ last.op = "removedir" /\ last.path = Root
    /\ root_path = <<"r">>
    /\ DOMAIN last.pre = {<<"r", "/">>}

\* C5: makedir requires the parent to be a Directory: otherwise it raises
\* ResourceNotFound and writes nothing; when it is and the path is Absent,
\* makedir writes exactly one zero-length marker at dir_key, and the path is
\* a Directory afterwards.
C5_MakedirParentGate ==
    last.op = "makedir" =>
        /\ ~isdir(last.pre, dirname(last.path))
           => (last.err = "ResourceNotFound" /\ bucket = last.pre)
        /\ (/\ isdir(last.pre, dirname(last.path))
            /\ getinfo(last.pre, last.path, TRUE) = "ResourceNotFound")
           => /\ last.err = "ok"
              /\ path_to_dir_key(last.path) \notin DOMAIN last.pre
              /\ DOMAIN bucket = DOMAIN last.pre \cup {path_to_dir_key(last.path)}
              /\ bucket[path_to_dir_key(last.path)] = <<>>
              /\ \A k \in DOMAIN last.pre : bucket[k] = last.pre[k]
              /\ getinfo(bucket, last.path, TRUE) = "dir"

\* C5 witness: makedir creates a directory below a directory
C5_Witness ==
    /\ last.op = "makedir" /\ last.err = "ok" /\ last.path = PathAB
    /\ bucket # last.pre

C7_MakedirOnFileRaises ==
    (last.op = "makedir" /\ getinfo(last.pre, last.path, TRUE) = "file")
    => (last.err # "ok" /\ bucket = last.pre)

\* C8: Idempotent makedirs.  After makedirs(p) has returned,
\* makedirs(p, recreate=True) does not raise and leaves the markers as they
\* are.
C8_MakedirsIdempotent ==
    (last.op = "makedirs" /\ ~last.flag /\ last.err = "ok")
    => /\ makedirs(bucket, last.path, TRUE).err = "ok"
       /\ Markers(makedirs(bucket, last.path, TRUE).b) = Markers(bucket)

\* C8 witness: makedirs has created a directory and both its ancestors
C8_Witness ==
    /\ last.op = "makedirs" /\ last.err = "ok" /\ last.path = PathABA /\ ~last.flag
    /\ path_to_dir_key(PathA) \notin DOMAIN last.pre
    /\ path_to_dir_key(PathABA) \in DOMAIN bucket

\* C9: makedirs(p) creates the missing ancestors root-first, and after it
\* has succeeded p and every ancestor of p is a Directory.
C9_MakedirsAncestors ==
    (last.op = "makedirs" /\ ~last.flag /\ last.err = "ok")
    => \A i \in 1..Len(recursepath(last.path)) :
          getinfo(bucket, recursepath(last.path)[i], TRUE) = "dir"

\* C10: Marker repair completeness.  After fix_storage has returned, every
\* ancestor directory of every object under the root, the root included,
\* reports isdir.
C10_RepairCompleteness ==
    last.op = "fix_storage"
    => \A path \in Paths \ {Root} :
          path_to_key(path) \in DOMAIN bucket
          => \A i \in 1..Len(recursepath(dirname(path))) :
                isdir(bucket, recursepath(dirname(path))[i])

\* C11: Repair non-destructive.  fix_storage overwrites and deletes no object:
\* every object stored before the repair has the same content afterwards, and
\* what the repair adds are zero-length objects at keys that held none.
C11_RepairNonDestructive ==
    last.op = "fix_storage"
    => /\ \A k \in DOMAIN last.pre : k \in DOMAIN bucket /\ bucket[k] = last.pre[k]
       /\ \A k \in DOMAIN bucket \ DOMAIN last.pre : bucket[k] = EmptyContent

\* whether the '..' segments of a path resolve above the root: walking the
\* segments, '..' is met at depth 0
RECURSIVE EscapesFrom(_, _)
EscapesFrom(segs, depth) ==
    IF segs = <<>> THEN FALSE
    ELSE IF Head(segs) = <<".", ".">>
         THEN depth = 0 \/ EscapesFrom(Tail(segs), depth - 1)
    ELSE IF Head(segs) \in {<<>>, <<".">>} THEN EscapesFrom(Tail(segs), depth)
    ELSE EscapesFrom(Tail(segs), depth + 1)

\* a key is the root prefix or lies under it
InsideRoot(key) ==
    \/ prefix_of(root_path) = <<>>
    \/ key = prefix_of(root_path)
    \/ startswith(key, prefix_of(root_path) \o <<DELIMITER>>)

\* C12: Back-reference rejection.  _path_to_key raises IllegalBackReference
\* exactly for the paths whose '..' segments resolve above the root, with and
\* without a root prefix, and a key it returns is never outside the prefix.
C12_BackReferenceRejected ==
    last.op = "path_to_key"
    => /\ EscapesFrom(split(last.path, "/"), 0) <=> last.err = "IllegalBackReference"
       /\ last.err = "ok" => InsideRoot(last.dst)

\* C12 witness: a path that descends and then climbs above the root, under
\* a root prefix
C12_Witness ==
    /\ last.op = "path_to_key" /\ last.err = "IllegalBackReference"
    /\ last.path = <<"a", "/", ".", ".", "/", ".", ".">>
    /\ prefix_of(root_path) # <<>>

\* the path a key stands for: the key without the root prefix, made absolute
key_to_path(key) ==
    abspath(lstrip(after_prefix(key, prefix_of(root_path)), DELIMITER))

\* C13: Path round-trip.  For every path that does not escape the root the
\* key gives back the normalized path, and no path with another normal form
\* has the same key.
C13_PathRoundTrip ==
    (last.op = "path_to_key" /\ last.err = "ok")
    => /\ key_to_path(last.dst) = validatepath(last.path)
       /\ \A q \in PathInputs :
             (~IllegalBackReference(q) /\ path_to_key(q) = last.dst)
             => validatepath(q) = validatepath(last.path)

\* C13 witness: a path that normalization changes, under a root prefix
C13_Witness ==
    /\ last.op = "path_to_key" /\ last.err = "ok"
    /\ last.path = <<"a", "/", ".", ".", "/", "b">>
    /\ last.dst = <<"r", "/", "b">>

\* C14: a path is reported as a directory (isdir, getinfo) whenever its
\* marker exists or some object's key starts with its dir_key.
C14_ImplicitDirectory ==
    (/\ last.op = "getinfo" /\ last.path # Root
     /\ \/ path_to_dir_key(last.path) \in DOMAIN bucket
        \/ HasEntries(bucket, last.path))
    => (isdir(bucket, last.path) /\ getinfo(bucket, last.path, TRUE) = "dir")

\* C15: getinfo resolves a path in this order: a missing parent marker gives
\* ResourceNotFound unless the parent check is skipped, even with an object at
\* the key; then an object at the key gives File, also with a marker; then a
\* marker gives Directory; otherwise ResourceNotFound.  The root is always a
\* Directory.
C15_GetinfoOrder ==
    last.op = "getinfo"
    => last.err =
         IF /\ last.flag /\ dirname(last.path) # Root
            /\ path_to_dir_key(dirname(last.path)) \notin DOMAIN bucket
         THEN "ResourceNotFound"
         ELSE IF last.path = Root THEN "dir"
         ELSE IF path_to_key(last.path) \in DOMAIN bucket THEN "file"
         ELSE IF path_to_dir_key(last.path) \in DOMAIN bucket THEN "dir"
         ELSE "ResourceNotFound"

\* C15 witness: an object and a marker are both stored for a path whose
\* parent is marked, and getinfo says File
C15_Witness ==
    /\ last.op = "getinfo" /\ last.flag /\ last.path = PathAB
    /\ path_to_key(PathAB) \in DOMAIN bucket
    /\ path_to_dir_key(PathAB) \in DOMAIN bucket
    /\ path_to_dir_key(PathA) \in DOMAIN bucket
    /\ last.err = "file"

\* the handles a successful openbin may have returned: open on the path and
\* in the mode of the call
Opened == {h \in DOMAIN handles : /\ handles[h].st = "open"
                                   /\ handles[h].path = last.path
                                   /\ handles[h].mode = last.flag}

\* C16: opening for read raises ResourceNotFound when no object is at the key
\* and FileExpected when the path is a directory and the filesystem is strict;
\* a filesystem that is not strict never raises FileExpected; on success the
\* buffer holds the whole object and the cursor is at 0.
C16_ReadOpen ==
    (last.op = "openbin" /\ ~mode_create(last.flag))
    => /\ (strict /\ getinfo(last.pre, last.path, TRUE) = "dir")
          => last.err = "FileExpected"
       /\ (/\ path_to_key(last.path) \notin DOMAIN last.pre
           /\ ~(strict /\ getinfo(last.pre, last.path, TRUE) = "dir"))
          => last.err = "ResourceNotFound"
       /\ ~strict => last.err # "FileExpected"
       /\ last.err = "ok"
          => /\ last.buf = last.pre[path_to_key(last.path)]
             /\ \E h \in Opened : handles[h].buf = last.buf /\ handles[h].pos = 0

\* C16 witness: an object with content is opened for read
C16_Witness ==
    /\ last.op = "openbin" /\ last.flag = <<"r">> /\ last.err = "ok"
    /\ last.buf # <<>>
    /\ \E h \in Opened : handles[h].pos = 0

\* C17: opening in a create mode (w, a, x) raises ResourceNotFound when the
\* marker of the parent is missing and FileExpected when the path is a
\* directory; in both cases the bucket stays as it was and no handle is
\* returned that could write later.
C17_CreateOpenGates ==
    /\ [](  (last.op = "openbin" /\ mode_create(last.flag))
          => /\ (/\ dirname(last.path) # Root
                 /\ path_to_dir_key(dirname(last.path)) \notin DOMAIN last.pre)
                => last.err = "ResourceNotFound"
             /\ getinfo(last.pre, last.path, TRUE) = "dir"
                => last.err = "FileExpected"
             /\ last.err \in {"ResourceNotFound", "FileExpected"}
                => bucket = last.pre)
    /\ [][(last'.op = "openbin" /\ last'.err # "ok") => handles' = handles]_vars

\* C17, amended: as C17, but a directory opened with the exclusive flag
\* raises FileExists instead of FileExpected.
C17_CreateOpenGatesAmended ==
    /\ [](  (last.op = "openbin" /\ mode_create(last.flag))
          => /\ (/\ dirname(last.path) # Root
                 /\ path_to_dir_key(dirname(last.path)) \notin DOMAIN last.pre)
                => last.err = "ResourceNotFound"
             /\ getinfo(last.pre, last.path, TRUE) = "dir"
                => last.err = IF mode_exclusive(last.flag) THEN "FileExists"
                              ELSE "FileExpected"
             /\ last.err \in {"ResourceNotFound", "FileExpected", "FileExists"}
                => bucket = last.pre)
    /\ [][(last'.op = "openbin" /\ last'.err # "ok") => handles' = handles]_vars

\* C17 witness: a directory is opened for writing and FileExpected is raised
C17_Witness ==
    /\ last.op = "openbin" /\ last.flag = <<"w">>
    /\ last.path # Root
    /\ getinfo(last.pre, last.path, TRUE) = "dir"
    /\ last.err = "FileExpected"

\* C18: opening an existing object for append gives a handle whose buffer is
\* the object's content and whose cursor is at its end, so that writing w and
\* closing stores the old content followed by w; with no object at the key
\* the buffer starts empty.
C18_AppendOpen ==
    (last.op = "openbin" /\ mode_appending(last.flag) /\ last.err = "ok")
    => IF path_to_key(last.path) \in DOMAIN last.pre
       THEN /\ last.buf = last.pre[path_to_key(last.path)]
            /\ \E h \in Opened :
                 /\ handles[h].buf = last.buf
                 /\ handles[h].pos = Len(last.buf)
                 /\ \A w \in {<<>>} \cup {<<d>> : d \in Bytes} :
                      on_close(bucket, handles[h].key, handles[h].mode,
                               file_write(handles[h].buf, handles[h].pos, w),
                               handles[h].pos + Len(w))[handles[h].key]
                        = last.pre[path_to_key(last.path)] \o w
       ELSE last.buf = <<>> /\ \E h \in Opened : handles[h].buf = <<>>

\* C18 witness: an appending handle is closed and the object is what it was
\* followed by the byte written
C18_Witness ==
    /\ last.op = "close" /\ last.flag = <<"a">> /\ last.err = "ok"
    /\ path_to_key(last.path) \in DOMAIN last.pre
    /\ last.pre[path_to_key(last.path)] = <<1>>
    /\ bucket[path_to_key(last.path)] = <<1, 1>>

\* C19: write, truncate, seek, read and flush leave the bucket as it is; a
\* close of a handle opened to create or write puts the whole buffer, from
\* position 0, at the handle's key and changes nothing else; a close of a
\* read-only handle changes nothing.
C19_OnlyCloseUploads ==
    /\ last.op \in {"write", "truncate", "seek", "read", "flush"} => bucket = last.pre
    /\ (last.op = "close" /\ last.err = "ok")
       => bucket = IF mode_create(last.flag) \/ mode_writing(last.flag)
                   THEN put_blob(last.pre, path_to_key(last.path), last.buf)
                   ELSE last.pre

\* C19 witness: a handle whose cursor is at the end of two bytes written is
\* closed over an object with other content
C19_Witness ==
    /\ last.op = "close" /\ last.flag = <<"w">> /\ last.err = "ok"
    /\ last.buf = <<1, 1>>
    /\ path_to_key(last.path) \in DOMAIN last.pre
    /\ last.pre # bucket

\* C20: when the upload fails in close, the failure reaches the caller and
\* the temporary file is closed all the same (the handle reports closed).
C20_CloseReleasesOnFailure ==
    (last.op = "close" /\ last.err # "ok")
    => /\ last.err = "GoogleCloudError"
       /\ Opened = {}

\* C21: copy(src, dst, overwrite) raises DestinationExists when overwrite is
\* false and dst exists, whatever src is; otherwise, on a strict filesystem,
\* ResourceNotFound when the parent of dst is not a directory; otherwise
\* FileExpected when src is a directory and ResourceNotFound when src does not
\* exist.  A copy that raises leaves the bucket as it was; a copy that returns
\* has put the content of src at the key of dst and changed nothing else.
C21_CopyGates ==
    last.op = "copy"
    => /\ (~last.flag /\ exists(last.pre, last.dst)) => last.err = "DestinationExists"
       /\ (/\ last.flag \/ ~exists(last.pre, last.dst)
           /\ strict /\ ~isdir(last.pre, dirname(last.dst)))
          => last.err = "ResourceNotFound"
       /\ (/\ last.flag \/ ~exists(last.pre, last.dst)
           /\ ~strict \/ isdir(last.pre, dirname(last.dst)))
          => /\ isdir(last.pre, last.path) => last.err = "FileExpected"
             /\ ~exists(last.pre, last.path) => last.err = "ResourceNotFound"
       /\ last.err # "ok" => bucket = last.pre
       /\ last.err = "ok"
          => /\ path_to_key(last.path) \in DOMAIN last.pre
             /\ bucket = put_blob(last.pre, path_to_key(last.dst),
                                  last.pre[path_to_key(last.path)])
             /\ bucket[path_to_key(last.path)] = last.pre[path_to_key(last.path)]

\* C21 witness: dst exists and src does not, overwrite is false, and
\* DestinationExists is raised
C21_Witness ==
    /\ last.op = "copy" /\ ~last.flag
    /\ ~exists(last.pre, last.path)
    /\ path_to_key(last.dst) \in DOMAIN last.pre
    /\ last.err = "DestinationExists"

\* C22: move(src, dst, overwrite) is copy, then remove of src: when it returns,
\* src is absent and dst holds what src held; when the copy returns and the
\* remove raises, src and dst are both stored with the same content and the
\* error is raised to the caller; when the copy raises, src is not removed.
C22_MoveIsCopyThenRemove ==
    last.op = "move"
    => /\ last.err = "ok"
          => /\ getinfo(bucket, last.path, TRUE) = "ResourceNotFound"
             /\ path_to_key(last.dst) \in DOMAIN bucket
             /\ bucket[path_to_key(last.dst)] = last.pre[path_to_key(last.path)]
       /\ (copy(last.pre, last.path, last.dst, last.flag).err = "ok" /\ last.err # "ok")
          => /\ bucket = copy(last.pre, last.path, last.dst, last.flag).b
             /\ bucket[path_to_key(last.dst)] = bucket[path_to_key(last.path)]
       /\ copy(last.pre, last.path, last.dst, last.flag).err # "ok"
          => (bucket = last.pre /\ last.err = copy(last.pre, last.path, last.dst, last.flag).err)

\* C23: remove(p) raises FileExpected when p is a directory and the filesystem
\* is strict; when the delete reaches the store and no object is at key(p) it
\* raises ResourceNotFound, strict or not; a remove that raises deletes
\* nothing, one that returns deletes the object at key(p) and nothing else.
C23_RemoveGates ==
    last.op = "remove"
    => /\ (strict /\ getinfo(last.pre, last.path, TRUE) = "dir")
          => last.err = "FileExpected"
       /\ (/\ ~(strict /\ getinfo(last.pre, last.path, TRUE) = "dir")
           /\ path_to_key(last.path) \notin DOMAIN last.pre)
          => last.err = "ResourceNotFound"
       /\ ~strict => last.err \in {"ok", "ResourceNotFound"}
       /\ last.err # "ok" => bucket = last.pre
       /\ last.err = "ok"
          => /\ path_to_key(last.path) \in DOMAIN last.pre
             /\ DOMAIN bucket = DOMAIN last.pre \ {path_to_key(last.path)}
             /\ \A k \in DOMAIN bucket : bucket[k] = last.pre[k]

\* C23 witness: a file is removed from a directory whose marker stays
C23_Witness ==
    /\ last.op = "remove" /\ last.err = "ok" /\ last.path = PathAB
    /\ path_to_dir_key(PathA) \in DOMAIN bucket
    /\ path_to_key(PathAB) \notin DOMAIN bucket

\* C24: removedir(p) raises DirectoryExpected when p is a file and
\* ResourceNotFound when p is absent, and deletes nothing then; a removedir
\* that returns has deleted the marker at dir_key(p) and nothing else, and p is
\* absent afterwards: isdir(p) and exists(p) are false.
C24_RemovedirGates ==
    (last.op = "removedir" /\ last.path # Root)
    => /\ getinfo(last.pre, last.path, TRUE) = "file" => last.err = "DirectoryExpected"
       /\ getinfo(last.pre, last.path, TRUE) = "ResourceNotFound"
          => last.err = "ResourceNotFound"
       /\ last.err # "ok" => bucket = last.pre
       /\ last.err = "ok"
          => /\ path_to_dir_key(last.path) \in DOMAIN last.pre
             /\ DOMAIN bucket = DOMAIN last.pre \ {path_to_dir_key(last.path)}
             /\ \A k \in DOMAIN bucket : bucket[k] = last.pre[k]
             /\ getinfo(bucket, last.path, TRUE) = "ResourceNotFound"
             /\ ~isdir(bucket, last.path)
             /\ ~exists(bucket, last.path)

\* C24 witness: the marker of an empty directory is deleted, other objects stay
C24_Witness ==
    /\ last.op = "removedir" /\ last.err = "ok"
    /\ path_to_dir_key(last.path) \in DOMAIN last.pre
    /\ path_to_dir_key(last.path) \notin DOMAIN bucket
    /\ \E k \in DOMAIN bucket : ~endswith(k, DELIMITER)

\* the prefix under which the entries of a directory lie: its dir_key, and
\* nothing for the root of a filesystem that has no root prefix
ListingPrefix(path) ==
    IF path = Root /\ prefix_of(root_path) = <<>> THEN <<>> ELSE path_to_dir_key(path)

\* the keys under the directory, with the prefix stripped
KeysUnder(b, path) ==
    {after_prefix(k, ListingPrefix(path)) :
        k \in {x \in DOMAIN b : startswith(x, ListingPrefix(path))
                                /\ x # path_to_dir_key(path)}}

\* C25: listing a directory yields one directory entry for each common prefix
\* directly under its dir_key, named by the prefix without the dir_key and
\* without the trailing delimiter, and one entry for each object directly under
\* its dir_key, named by the key without the dir_key; the marker of the
\* directory and objects nested deeper are not entries.
C25_ListingEntries ==
    (last.op = "listdir" /\ last.err = "ok")
    => /\ last.out.dirs = {SubSeq(r, 1, index(r, DELIMITER) - 1) :
                             r \in {x \in KeysUnder(last.pre, last.path) :
                                      contains(x, DELIMITER)}}
       /\ last.out.files = {r \in KeysUnder(last.pre, last.path) : ~contains(r, DELIMITER)}
       /\ <<>> \notin last.out.files

\* C25 witness: the directory listed has a marker, a file, a subdirectory and
\* an object nested two levels down
C25_Witness ==
    /\ last.op = "listdir" /\ last.err = "ok" /\ last.path = PathA
    /\ path_to_key(PathAB) \in DOMAIN bucket
    /\ path_to_dir_key(PathAB) \in DOMAIN bucket
    /\ path_to_key(PathABA) \in DOMAIN bucket
    /\ last.out.files = {<<"b">>}
    /\ last.out.dirs = {<<"b">>}

C27_ConstructWithoutCreate ==
    (last.op = "init" /\ ~last.flag /\ last.path \in {<<"r">>, <<"/", "r">>})
    => /\ (last.dst = <<TRUE>> /\ <<"r", "/">> \notin DOMAIN last.pre)
          => last.err = "CreateFailed"
       /\ last.dst = <<FALSE>> => last.err = "ok"
       /\ bucket = last.pre

\* C27 witness: CreateFailed is raised over a bucket that holds an object r
\* but no marker r/
C27_Witness ==
    /\ last.op = "init" /\ last.path = <<"r">> /\ ~last.flag /\ last.dst = <<TRUE>>
    /\ <<"r">> \in DOMAIN last.pre
    /\ last.err = "CreateFailed"

\* C28: constructed with create=True, GCSFS writes an empty root marker when
\* the root prefix is not empty and nothing is stored at prefix + "/", and
\* writes nothing otherwise: a root marker that is stored keeps its content,
\* and for the root paths "", "." and "/" no object is written.
C28_ConstructWithCreate ==
    (last.op = "init" /\ last.flag)
    => /\ last.err = "ok"
       /\ last.path \in {<<>>, <<".">>, <<"/">>} => bucket = last.pre
       /\ last.path \in {<<"r">>, <<"/", "r">>}
          => bucket = IF <<"r", "/">> \in DOMAIN last.pre THEN last.pre
                      ELSE put_blob(last.pre, <<"r", "/">>, EmptyContent)

\* C28 witness: constructed with root_path "." over a bucket without "./"
C28_Witness ==
    /\ last.op = "init" /\ last.flag /\ last.path = <<".">>
    /\ <<".", "/">> \notin DOMAIN last.pre
    /\ bucket = last.pre

\* the keys of the mapping for which d[key] returns a value
StoredKeys(b) == {k \in MapKeys : getitem(b, k).err = "ok"}

\* C29: in the mapping of get_mapper(), d[k] returns the last value stored for
\* k and raises KeyError when k was never stored or was deleted (a store or a
\* delete of k changes d[k] and no other d[j]); iterating d yields the keys
\* stored, each once; the mapping of an empty filesystem is empty.
C29_MappingRefinement ==
    /\ last.op = "init" => StoredKeys(bucket) = {}
    /\ (last.op = "setitem" /\ last.err = "ok")
       => /\ getitem(bucket, last.path) = [err |-> "ok", val |-> last.buf]
          /\ \A j \in MapKeys \ {last.path} : getitem(bucket, j) = getitem(last.pre, j)
    /\ (last.op = "delitem" /\ last.err = "ok")
       => /\ getitem(bucket, last.path).err = "KeyError"
          /\ \A j \in MapKeys \ {last.path} : getitem(bucket, j) = getitem(last.pre, j)
    /\ last.op = "getitem" => last.err \in {"ok", "KeyError"}
    /\ last.op = "keys"
       => /\ last.err = "ok"
          /\ {e.name : e \in last.out} = StoredKeys(bucket)
          /\ Cardinality(last.out) = Cardinality(StoredKeys(bucket))

\* C30: in every state of the bucket and for every path, isdir is true exactly
\* when getinfo returns a directory, and exists is true exactly when getinfo
\* returns (does not raise ResourceNotFound).
C30_QueriesAgreeWithGetinfo ==
    (last.op = "getinfo" /\ last.flag)
    => /\ isdir(bucket, last.path) <=> last.err = "dir"
       /\ exists(bucket, last.path) <=> last.err # "ResourceNotFound"

\* C31: handles open at the same time on one path do not see each other: a
\* call on one handle leaves every other handle as it is, and the buffer of a
\* handle that is opened comes from the bucket alone; when a handle opened to
\* write is closed, the object is the whole buffer of that handle, whatever an
\* earlier close of another handle stored.
C31_HandlesIsolated ==
    /\ [][\A h1, h2 \in DOMAIN handles :
            h1 # h2 => (handles'[h1] = handles[h1] \/ handles'[h2] = handles[h2])]_vars
    /\ []((last.op = "openbin" /\ last.err = "ok")
           => last.buf = IF /\ path_to_key(last.path) \in DOMAIN last.pre
                            /\ ~mode_create(last.flag) \/ mode_appending(last.flag)
                         THEN last.pre[path_to_key(last.path)] ELSE <<>>)
    /\ []((last.op \in {"write", "read"}) => bucket = last.pre)
    /\ []((last.op = "close" /\ last.err = "ok" /\ mode_writing(last.flag))
           => (/\ path_to_key(last.path) \in DOMAIN bucket
               /\ bucket[path_to_key(last.path)] = last.buf))

\* C31 witness: a handle is closed after another handle on the same path
\* stored a longer content, while a third buffer is still open on the path
C31_Witness ==
    /\ last.op = "close" /\ last.err = "ok" /\ last.flag = <<"w">>
    /\ last.buf = <<2>>
    /\ path_to_key(last.path) \in DOMAIN last.pre
    /\ last.pre[path_to_key(last.path)] = <<1, 1>>
    /\ \E h \in DOMAIN handles :
          /\ handles[h].st = "open" /\ handles[h].path = last.path
          /\ handles[h].buf = <<1, 2>>

\* the segments of a path that remain when empty and "." segments are dropped
\* and each ".." takes back the segment before it
RECURSIVE Resolved(_, _)
Resolved(segs, acc) ==
    IF segs = <<>> THEN acc
    ELSE IF Head(segs) \in {<<>>, <<".">>} THEN Resolved(Tail(segs), acc)
    ELSE IF Head(segs) = <<".", ".">>
    THEN Resolved(Tail(segs), IF acc = <<>> THEN acc ELSE SubSeq(acc, 1, Len(acc) - 1))
    ELSE Resolved(Tail(segs), Append(acc, Head(segs)))

\* C32: path_to_key(p) is the root prefix and the normalized relative path
\* joined by the delimiter, without leading or trailing delimiter; "", ".", "/"
\* and every path that normalizes to the root give the prefix itself; a
\* trailing slash does not change the key; path_to_dir_key(p) is the key
\* followed by the delimiter.
C32_KeyOfPath ==
    (last.op = "path_to_key" /\ last.err = "ok")
    => /\ last.dst = strjoin(SelectSeq(<<prefix_of(root_path)>>, LAMBDA x : x # <<>>)
                               \o Resolved(split(last.path, "/"), <<>>), "/")
       /\ last.dst # <<>> => (Head(last.dst) # "/" /\ last.dst[Len(last.dst)] # "/")
       /\ (last.path \in {<<>>, <<".">>, <<"/">>} \/ validatepath(last.path) = Root)
          => last.dst = prefix_of(root_path)
       /\ path_to_key(last.path \o <<"/">>) = last.dst
       /\ path_to_dir_key(last.path) = last.dst \o <<DELIMITER>>

\* C32 witness: a path that normalizes to the root, under a root prefix
C32_Witness ==
    /\ last.op = "path_to_key" /\ last.err = "ok"
    /\ last.path = <<"a", "/", ".", ".", "/">>
    /\ root_path = <<"r">>
    /\ last.dst = <<"r">>

\* C33: whenever openbin raises after the temporary file was created, the
\* file is closed before the error reaches the caller: no temporary file is
\* open without a handle returned.
C33_OpenbinReleasesBuffer ==
    (last.op = "openbin" /\ last.err # "ok") => last.out # "open"

\* C34: the directory check of the self-healing variant, on a path without
\* marker and with an object under its dir_key, writes the empty marker at
\* dir_key and returns true; with a marker it returns true and writes nothing;
\* with neither it returns false and writes nothing.
C34_CheckAndFixDir ==
    last.op = "check_and_fix_dir"
    => IF healing_path_to_dir_key(last.path) \in DOMAIN last.pre
       THEN last.out = TRUE /\ bucket = last.pre
       ELSE IF \E k \in DOMAIN last.pre : startswith(k, healing_path_to_dir_key(last.path))
       THEN /\ last.out = TRUE
            /\ bucket = put_blob(last.pre, healing_path_to_dir_key(last.path), EmptyContent)
       ELSE last.out = FALSE /\ bucket = last.pre

\* C34 witness: the marker of /a is written because an object lies two
\* levels below it
C34_Witness ==
    /\ last.op = "check_and_fix_dir" /\ last.path = PathA
    /\ DOMAIN last.pre = {path_to_key(PathABA)}
    /\ last.out = TRUE
    /\ path_to_dir_key(PathA) \in DOMAIN bucket

\* C35: on a strict filesystem that starts from a bucket where no path is
\* both, no sequence of calls leaves a path with an object at its key and a
\* marker at its key + "/".
C35_NeverFileAndDirectory ==
    strict => \A p \in Paths : ~(/\ path_to_key(p) \in DOMAIN bucket
                                 /\ path_to_dir_key(p) \in DOMAIN bucket)

\* C36: on a strict filesystem that starts with the markers of all ancestors
\* of every object, every object under the root still has the marker of each
\* of its ancestor directories after any sequence of calls, those made while
\* a write handle is open included.
C36_NoOrphans ==
    strict => \A path \in Paths \ {Root} :
                 path_to_key(path) \in DOMAIN bucket
                 => \A i \in 1..Len(recursepath(dirname(path))) :
                       \/ recursepath(dirname(path))[i] = Root
                       \/ path_to_dir_key(recursepath(dirname(path))[i]) \in DOMAIN bucket

\* C37: listing and stat agree.  In every bucket state the entries that a
\* listing of a directory yields have pairwise distinct names, and getinfo of
\* the path of each entry succeeds and reports the is_dir flag of the entry.
C37_ListingAgreesWithStat ==
    (last.op = "listdir" /\ last.err = "ok")
    => /\ last.out.dirs \cap last.out.files = {}
       /\ \A name \in last.out.dirs : getinfo(bucket, join(last.path, name), TRUE) = "dir"
       /\ \A name \in last.out.files : getinfo(bucket, join(last.path, name), TRUE) = "file"

\* C38: a move that returns loses no file content: what src held before the
\* call is stored at dst after it, also when src and dst are the same path
\* and overwrite is true.
C38_MoveKeepsContent ==
    (last.op = "move" /\ last.err = "ok")
    => /\ path_to_key(last.path) \in DOMAIN last.pre
       /\ path_to_key(last.dst) \in DOMAIN bucket
       /\ bucket[path_to_key(last.dst)] = last.pre[path_to_key(last.path)]

\* C39: fix_storage terminates for every root_path (none, plain, with a
\* leading or with a trailing slash) and every bucket content, keys that start
\* with the root_path string and do not lie under the root included: a call
\* that has started returns.
C39_FixStorageTerminates ==
    (last.op = "fix_storage_loop") ~> (last.op = "fix_storage")

\* C40: closing a handle is effective once.  A second close() of a handle
\* uploads nothing, leaves the bucket as it is, also when another writer has
\* stored an object at the key since the first close, and does not raise.
C40_SecondCloseIsNoop ==
    last.op = "close_again" => (last.err = "ok" /\ bucket = last.pre)

====
